---- MODULE Spec2Model ----
(***************************************************************************)
(* Model of the orbital-nexus-sim client engine:                           *)
(*   - the connection manager   (src/src/hooks/useWebSocket.ts)            *)
(*   - the telemetry store      (src/src/hooks/useOrbitalTracking.ts)      *)
(*   - the handoff detector     (src/src/pages/Index.tsx)                  *)
(* React is modelled by its observable rules: a setState call updates the  *)
(* component state at once, an effect runs in a commit when one of its     *)
(* dependencies changed since the previous commit, every effect of one     *)
(* commit reads the state as rendered for that commit, and a setState on   *)
(* an unmounted component is ignored.                                      *)
(***************************************************************************)
EXTENDS Integers, Sequences, FiniteSets, TLC

\* ------------------------------------------------------------------ bounds
MaxSockets == 3
MaxHandoffs == 2
MaxNow == 6
\* capacity of a station's visibility history in the model; the source
\* writes 1800 and the sampler is the same code for every capacity
SignalCapacity == 3
\* sampler pushes beyond the capacity of a buffer
MaxExtraPushes == 2
\* changes of the bandwidth and of the stations prop
MaxInputChanges == 2
\* messages sent from the message panel
MaxSends == 2
\* changes of the mode prop of ProtocolStack
MaxModeChanges == 1
\* bundle-creation requests sent from the message panel
MaxRequests == 3
\* entries the handoff effect of the message panel appends
MaxLogEntries == 3
\* ticks of the delivery check of the message panel
MaxDeliveryTicks == 3

\* ----------------------------------------------------- values and inputs
WS_URL == "ws://localhost:8000/ws/orbital_tracking"
\* a second well-formed url, and one that new WebSocket() rejects
OTHER_URL == "ws://localhost:8000/ws"
BAD_URL == "localhost:8000"
Urls == {WS_URL, OTHER_URL, BAD_URL}

NullId == "<null>"
NoError == "<null>"
NoSocket == 0
SockIds == 1..MaxSockets

DefaultActive == "toronto"

\* the wall clock when the component mounts, in seconds
FirstNow == 2

\* One row of DEFAULT_STATIONS.
Station(id, name, location, lat, lon, color, active) ==
  [id |-> id, name |-> name, location |-> location, lat |-> lat, lon |-> lon,
   color |-> color, isActive |-> active, elevation |-> 0,
   nextPassTime |-> "--:--"]

DEFAULT_STATIONS ==
  << Station("toronto", "Toronto", "Canada", "43.6532", "-79.3832", "#4ade80", TRUE),
     Station("london", "London", "United Kingdom", "51.5074", "-0.1278", "#3b82f6", FALSE),
     Station("tokyo", "Tokyo", "Japan", "35.6762", "139.6503", "#f59e0b", FALSE),
     Station("sydney", "Sydney", "Australia", "-33.8688", "151.2093", "#ec4899", FALSE),
     Station("washington", "Washington DC", "USA", "38.9072", "-77.0369", "#8b5cf6", FALSE),
     Station("singapore", "Singapore", "Singapore", "1.3521", "103.8198", "#06b6d4", FALSE),
     Station("bengaluru", "Bengaluru", "India", "12.9716", "77.5946", "#10b981", FALSE),
     Station("saopaulo", "Sao Paulo", "Brazil", "-23.5505", "-46.6333", "#f97316", FALSE),
     Station("moscow", "Moscow", "Russia", "55.7558", "37.6173", "#ef4444", FALSE) >>

ConfiguredIds == {DEFAULT_STATIONS[i].id : i \in 1..Len(DEFAULT_STATIONS)}

\* StationData of a frame: id, look_angles.elevation, next_pass_minutes.
StationData(id, elevation, minutes) ==
  [id |-> id, elevation |-> elevation, next_pass_minutes |-> minutes]

\* stations[] of a frame that reports every configured station
StationsFull ==
  << StationData("toronto", 42, 0), StationData("london", 0, 75),
     StationData("tokyo", 0, 185), StationData("sydney", 0, 9),
     StationData("washington", 17, 0), StationData("singapore", 0, 240),
     StationData("bengaluru", 0, 61), StationData("saopaulo", 0, 600),
     StationData("moscow", 0, 59) >>

\* stations[] that omits configured stations and reports an unconfigured one
StationsPartial ==
  << StationData("london", 63, 0), StationData("mars", 5, 12),
     StationData("tokyo", 0, 3) >>

\* An inbound frame (the fields this model reads). has_stations is FALSE
\* when the frame carries no stations member.
Frame(type, ts, act, has, st) ==
  [type |-> type, timestamp |-> ts, active_station_id |-> act,
   has_stations |-> has, stations |-> st,
   dtn_queues |-> <<>>, custody_acks |-> <<>>]

\* the JavaScript null in lastMessage / orbitalData
NullMsg == Frame("<null>", 0, NullId, FALSE, <<>>)

ConnectionFrame == Frame("connection", 0, NullId, TRUE, StationsFull)

\* orbital_update frames fed to the store: an in-order pair, a frame older
\* than another with a partial stations[], a frame with no active station,
\* and a frame with no stations member.
UpdateFrames ==
  { Frame("orbital_update", 1, "toronto", TRUE, StationsFull),
    Frame("orbital_update", 2, "london", TRUE, StationsFull),
    Frame("orbital_update", 1, "london", TRUE, StationsPartial),
    Frame("orbital_update", 2, NullId, TRUE, StationsPartial),
    Frame("orbital_update", 2, "london", FALSE, <<>>) }

\* DTNBundle (the fields the consumers read); delivered_at NoTime is null.
NoTime == 0
Bundle(id, status, hops, custodian, created, delivered, age) ==
  [bundle_id |-> id, status |-> status, hops |-> hops,
   current_custodian |-> custodian, created_at |-> created,
   delivered_at |-> delivered, age_seconds |-> age]

\* CustodyAck
CustodyAck(id, from, to, ackType, ts) ==
  [type |-> "custody_ack", bundle_id |-> id, from_station |-> from,
   to_station |-> to, ack_type |-> ackType, timestamp |-> ts]

\* One entry of dtn_queues: a station id and its queue, in key order.
Queue(station, bundles) == [station |-> station, bundles |-> bundles]

\* An orbital_update frame with dtn_queues and custody_acks.
DtnFrame(ts, queues, acks) ==
  [Frame("orbital_update", ts, "toronto", TRUE, StationsFull) EXCEPT
     !.dtn_queues = queues, !.custody_acks = acks]

\* The life of bundle b1 as the upstream reports it (queued at toronto,
\* transmitting, forwarded to london with the ack, delivered with the ack),
\* then frames an unreliable upstream can send: b1 queued again with no
\* hops and a negative age, and queues that no longer hold b1.
DtnFrames ==
  { DtnFrame(1, <<Queue("toronto", <<Bundle("b1", "QUEUED", <<>>, "toronto", 1, NoTime, 1)>>)>>, <<>>),
    DtnFrame(2, <<Queue("toronto", <<Bundle("b1", "TRANSMITTING", <<"toronto">>, "toronto", 1, NoTime, 2)>>)>>, <<>>),
    DtnFrame(3, <<Queue("toronto", <<Bundle("b1", "FORWARDED", <<"toronto">>, "toronto", 1, NoTime, 3)>>)>>,
             <<CustodyAck("b1", "toronto", "london", "custody_accepted", 3)>>),
    DtnFrame(4, <<Queue("toronto", <<>>),
                  Queue("london", <<Bundle("b1", "DELIVERED", <<"toronto", "london">>, "london", 1, 4, 3)>>)>>,
             <<CustodyAck("b1", "london", "london", "delivered", 4)>>),
    DtnFrame(5, <<Queue("toronto", <<Bundle("b1", "QUEUED", <<>>, "toronto", 1, NoTime, 0 - 2)>>)>>, <<>>),
    DtnFrame(6, <<Queue("toronto", <<>>), Queue("london", <<>>)>>, <<>>) }

\* A raw message payload: text that JSON.parse rejects, or the JSON text of
\* a value (NullMsg for the text "null").
Malformed == [wellFormed |-> FALSE, value |-> NullMsg]
Json(v) == [wellFormed |-> TRUE, value |-> v]

StorePayloads ==
  {Json(f) : f \in UpdateFrames} \cup {Json(ConnectionFrame)}
WSPayloads ==
  { Malformed, Json(NullMsg),
    Json(Frame("orbital_update", 1, "toronto", TRUE, StationsFull)) }

DtnPayloads == {Json(f) : f \in DtnFrames}

\* .slice(0, 5) of the journey list
JourneyLimit == 5

\* Queues handed to TrafficFlowMonitor as allQueues: every selection, in
\* order, of the bundles below for toronto and for london. Two bundles share
\* created_at 3; j3 is EXPIRED with no hops, j7 DELIVERED with no hops.
TorontoBundles ==
  << Bundle("j1", "DELIVERED", <<"toronto", "london">>, "london", 3, 4, 1),
     Bundle("j2", "QUEUED", <<>>, "toronto", 5, NoTime, 0),
     Bundle("j3", "EXPIRED", <<>>, "toronto", 4, NoTime, 1),
     Bundle("j4", "TRANSMITTING", <<"toronto">>, "toronto", 1, NoTime, 4) >>
LondonBundles ==
  << Bundle("j5", "FORWARDED", <<"toronto">>, "london", 3, NoTime, 2),
     Bundle("j6", "EXPIRED", <<"toronto">>, "london", 2, NoTime, 3),
     Bundle("j7", "DELIVERED", <<>>, "london", 6, 6, 0),
     Bundle("j8", "TRANSMITTING", <<"toronto", "london">>, "london", 7, NoTime, 0) >>

RECURSIVE Pick(_, _, _)
Pick(list, keep, i) ==
  IF i > Len(list) THEN <<>>
  ELSE (IF i \in keep THEN <<list[i]>> ELSE <<>>) \o Pick(list, keep, i + 1)

JourneyInputs ==
  { <<Queue("toronto", Pick(TorontoBundles, a, 1)),
      Queue("london", Pick(LondonBundles, b, 1))>> :
      a \in SUBSET (1..Len(TorontoBundles)), b \in SUBSET (1..Len(LondonBundles)) }

\* for (let i = 60; i >= 0; i -= 5)
WindowSeconds == 60
StepSeconds == 5

\* One point of the throughput graph.
ThroughputPoint(time, up, down) ==
  [time |-> time, uplink |-> up, downlink |-> down]

\* initialData of the throughput graph
InitialThroughput ==
  [k \in 1..((WindowSeconds \div StepSeconds) + 1) |->
     ThroughputPoint("-" \o ToString(WindowSeconds - StepSeconds * (k - 1)) \o "s",
                     0, 0)]

\* Rates are held in units of 1/Scale Mbit/s and a value of Math.random()
\* in units of 1/Scale, so that every product and quotient of the estimator
\* (by 30, by 7, by tenths) is a whole number.
Scale == 21000

\* the linkStatus prop: null, or connection_state and snr_db
NoLink == [connection_state |-> "<null>", snr_db |-> 0]
Link(state, snr) == [connection_state |-> state, snr_db |-> snr]

ConnectionStates == {"ACQUIRED", "DEGRADED", "IDLE"}

\* snr_db of the frames: below, at and above the thresholds 3, 10 and 40
SnrValues == {0 - 20, 0, 2, 3, 5, 10, 11, 25, 40, 41, 60}

LinkInputs ==
  {NoLink} \cup {Link(s, snr) : s \in ConnectionStates, snr \in SnrValues}

\* values of Math.random(): 0, one half, and the largest below 1
RandomDraws == {0, Scale \div 2, Scale - 10}

\* Mutant of Max: the floor is not applied.
MaxKeepsSecond(a, b) == b

\* periods of the throughput sampler and of the visibility sampler, in ms
ThroughputMs == 1500
SignalMs == 1000
\* the time that passes in one step of the sampler clock, in ms
SamplerStep == 500

\* Math.min, Math.max
Min(a, b) == IF a < b THEN a ELSE b
Max(a, b) == IF a > b THEN a ELSE b

\* !linkStatus || linkStatus.connection_state === "IDLE"
LinkIdle(ls) == ls = NoLink \/ ls.connection_state = "IDLE"

\* snrFactor: Math.min((snr_db - 10) / 30, 1) for ACQUIRED,
\* Math.min((snr_db - 3) / 7, 1) for DEGRADED
SnrFactor(ls) ==
  IF ls.connection_state = "ACQUIRED"
  THEN Min(((ls.snr_db - 10) * Scale) \div 30, Scale)
  ELSE Min(((ls.snr_db - 3) * Scale) \div 7, Scale)

\* (Math.random() - 0.5) * tenths / 10, for the value r of Math.random()
Jitter(r, tenths) == ((r - Scale \div 2) * tenths) \div 10

\* Mutant of Bandwidth: an IDLE link is estimated like a DEGRADED one.
BandwidthIdleAsDegraded(ls, r1, r2) ==
  IF ls = NoLink THEN [uplink |-> 0, downlink |-> 0]
  ELSE IF ls.connection_state = "ACQUIRED"
  THEN [uplink |-> Max(0, (12 * Scale) \div 10 + (SnrFactor(ls) * 88) \div 10
                           + Jitter(r1, 5)),
        downlink |-> Max(0, 3 * Scale + SnrFactor(ls) * 22 + Jitter(r2, 15))]
  ELSE [uplink |-> Max(0, (3 * Scale) \div 10 + (SnrFactor(ls) * 9) \div 10
                           + Jitter(r1, 3)),
        downlink |-> Max(0, (8 * Scale) \div 10 + (SnrFactor(ls) * 22) \div 10
                             + Jitter(r2, 8))]

\* The rates the bandwidth effect sets for linkStatus ls when Math.random()
\* returns r1 for the uplink and r2 for the downlink.
Bandwidth(ls, r1, r2) ==
  IF LinkIdle(ls) THEN [uplink |-> 0, downlink |-> 0]
  ELSE LET uplinkRate ==
             IF ls.connection_state = "ACQUIRED"
             THEN (12 * Scale) \div 10 + (SnrFactor(ls) * 88) \div 10
                  + Jitter(r1, 5)
             ELSE IF ls.connection_state = "DEGRADED"
             THEN (3 * Scale) \div 10 + (SnrFactor(ls) * 9) \div 10
                  + Jitter(r1, 3)
             ELSE 0
           downlinkRate ==
             IF ls.connection_state = "ACQUIRED"
             THEN 3 * Scale + SnrFactor(ls) * 22 + Jitter(r2, 15)
             ELSE IF ls.connection_state = "DEGRADED"
             THEN (8 * Scale) \div 10 + (SnrFactor(ls) * 22) \div 10
                  + Jitter(r2, 8)
             ELSE 0
       IN [uplink |-> Max(0, uplinkRate), downlink |-> Max(0, downlinkRate)]

\* uplink and downlink rates the bandwidth effect sets: none, and a link
RateInputs ==
  { <<b.uplink, b.downlink>> :
      b \in { Bandwidth(NoLink, Scale \div 2, Scale \div 2),
              Bandwidth(Link("ACQUIRED", 25), Scale \div 2, Scale \div 2) } }

\* Array(1800): the slots of a visibility history
HistorySlots == 1800

\* no station row has been rendered
NoHistory == [length |-> 0, trues |-> 0]

\* a history of n samples of which the first k are true
History(n, k) == [i \in 1..n |-> i <= k]

\* the histories a station row is rendered with: of the capacity of the
\* model and of the capacity of the source, with every number of true entries
UptimeInputs ==
  {<<n, k>> : n \in {SignalCapacity, HistorySlots}, k \in 0..HistorySlots}

\* the stations prop of TrafficFlowMonitor: id and is_visible
TrafficStation(id, visible) == [id |-> id, is_visible |-> visible]
StationInputs ==
  { <<>>,
    <<TrafficStation("toronto", TRUE)>>,
    <<TrafficStation("toronto", FALSE)>>,
    <<TrafficStation("toronto", TRUE), TrafficStation("london", FALSE)>> }
TrafficIds == {"toronto", "london"}

\* protocolDirection null, activeLayer null, packetPosition -1
NullDirection == "<null>"
NullLayer == 0 - 1
NoPacket == 0 - 1

\* delays of the timers of ProtocolStack and of handleSend, in ms
TickMs == 200
HoldMs == 300
DownlinkMs == 1200
ResetMs == 2500
\* the step of the clock of these timers: every delay is a multiple of it
TimeStep == 100

\* the mode prop of ProtocolStack
StackModes == {"TCP", "DTN"}

\* how a bundle-creation request ends: the response reports success with
\* the bundle, the response reports success = false, fetch rejects (network
\* error), or the body of the response is not JSON
Outcomes == {"created", "rejected", "network", "notjson"}

\* what the user types before SEND
Texts == {"", "ping"}

\* stations the user clicks in the station list
SelectIds == {"toronto", "london", "tokyo"}

VARIABLES
  \* useWebSocket
  url,                  \* the url argument of the hook
  mounted,              \* FALSE once the component is unmounted
  sock,                 \* readyState of every socket created so far
  sockUrl,              \* the url captured by the closures of a socket
  nsock,                \* number of sockets created
  wsRef,                \* wsRef.current
  reconnectTimeoutRef,  \* reconnectTimeoutRef.current (a timer id)
  timers,               \* pending reconnect timers (id = scheduling socket)
  isConnected,
  connectionError,
  lastMessage,
  msgDirty,             \* lastMessage changed since the last commit
  \* useOrbitalTracking
  orbitalData,
  dataDirty,            \* orbitalData changed since the last commit
  \* Index
  stations,
  activeStationId,
  depActive,            \* activeStationId as rendered by the last commit
  handoffCount,
  handoffInProgress,
  dwellTimers,          \* pending handoff-indicator timeouts
  \* observation (history) variables
  ev,                   \* the last event handled
  lastUpdate,           \* last orbital_update frame handed to the store
  dupPending,           \* the snapshot awaiting Index repeats the one before
  userSelected,         \* a station was selected by the user
  selectedSinceMerge,   \* the user selected a station after the last merged frame
  inForce,              \* reference detector: active station of a frames-only run
  expected,             \* reference detector: handoffs of a frames-only run
  handoffTarget,        \* target of the last counted handoff
  \* GlobeView
  globeHandoffInProgress,  \* handoffInProgress of GlobeView
  prevActiveStation,
  globeTimers,          \* pending 1500 ms timeouts: the activeStationId each captured
  globeDepActive,       \* activeStationId seen by the last run of the GlobeView effect
  globeDepPrev,         \* prevActiveStation seen by the last run of the GlobeView effect
  \* the wall clock
  now,
  \* TrafficFlowMonitor
  allQueues,            \* the allQueues prop
  bundleJourneys,
  trafficStations,      \* the stations prop
  uplinkBandwidth,
  downlinkBandwidth,
  throughputData,
  signalHistory,        \* station id -> samples, for the ids that have an entry
  inputChanges,         \* changes of the bandwidth and of the stations prop so far
  \* observation (history) variables
  throughputPushed,     \* every point the throughput sampler pushed
  signalPushed,         \* every sample the visibility sampler pushed, per station
  throughputDue,        \* ms until the throughput interval fires
  signalDue,            \* ms until the visibility interval fires
  throughputAge,        \* ms since the throughput sampler last ticked (or the mount)
  signalAge,            \* ms since the visibility sampler last ticked (or the mount)
  \* MessageExchange
  message,              \* the text of the input field
  messages,             \* the message log
  logDeps,              \* handoffCount and activeStationId seen by the last run of the handoff effect
  stationQueue,         \* dtnQueues[activeStationId] as rendered
  deliveryTicks,        \* ticks of the delivery check so far
  messageMode,          \* mode: TCP or DTN
  protocolDirection,
  senderTimers,         \* pending timeouts of handleSend
  sends,                \* messages sent so far
  pendingRequests,      \* bundle-creation requests awaiting their response
  requests,             \* bundle-creation requests sent so far
  \* ProtocolStack
  stackMode,            \* the mode prop
  activeLayer,
  packetPosition,
  seqInterval,          \* the running interval with its closure (currentLayer)
  holdTimers,           \* pending 300 ms timeouts
  modeChanges,          \* changes of the mode prop so far
  \* observation (history) variables
  runId,                \* number of runs of the sequencer started so far
  marked,               \* layers marked active by the current run, in order
  runDirection,         \* direction of the current run
  runMode,              \* mode of the current run
  lastFired,            \* the last panel event: kind, run and send it belongs to
  \* TrafficFlowMonitor: the estimator and the uptime of a station row
  linkStatus,           \* the linkStatus prop
  uptimeShown,          \* the uptime last computed for a station row
  \* observation (history) variables
  jitterDraws,          \* the values Math.random() returned to the last estimate
  uptimeOf              \* length and number of true entries of the history of uptimeShown

wsVars == <<url, mounted, sock, sockUrl, nsock, wsRef, reconnectTimeoutRef,
            timers, isConnected, connectionError>>
msgVars == <<lastMessage, msgDirty>>
storeVars == <<orbitalData, dataDirty, lastUpdate, dupPending>>
indexVars == <<stations, activeStationId, depActive, handoffCount,
               handoffInProgress, dwellTimers, userSelected,
               selectedSinceMerge, inForce, expected, handoffTarget>>
globeVars == <<globeHandoffInProgress, prevActiveStation, globeTimers,
               globeDepActive, globeDepPrev>>
trafficVars == <<allQueues, bundleJourneys>>
samplerClock == <<throughputDue, signalDue, throughputAge, signalAge>>
bufferVars == <<trafficStations, uplinkBandwidth, downlinkBandwidth,
                throughputData, signalHistory, inputChanges,
                throughputPushed, signalPushed, samplerClock>>
effectVars == <<logDeps, stationQueue, deliveryTicks>>
inputVars == <<message, effectVars>>
senderVars == <<messages, messageMode, protocolDirection, senderTimers, sends,
                pendingRequests, requests, inputVars>>
stackVars == <<stackMode, activeLayer, packetPosition, holdTimers, modeChanges,
               runId, marked, runDirection, runMode, lastFired>>
panelVars == <<senderVars, stackVars, seqInterval>>
monitorVars == <<linkStatus, uptimeShown, jitterDraws, uptimeOf>>
viewVars == <<globeVars, now, trafficVars, bufferVars, panelVars, monitorVars>>
vars == <<wsVars, msgVars, storeVars, indexVars, viewVars, ev>>

Event(kind, s) ==
  [kind |-> kind, sock |-> s, cls |-> "-", escaped |-> FALSE,
   afterDrop |-> FALSE, merged |-> FALSE, dup |-> FALSE, stale |-> FALSE,
   handoff |-> FALSE]

\* ------------------------------------- ProtocolStack: layers and interval

\* the layers of the stack for a mode, top first
Layers(mode) ==
  IF mode = "DTN"
  THEN <<"APPLICATION", "BUNDLE", "TRANSPORT", "NETWORK", "PHYSICAL">>
  ELSE <<"APPLICATION", "TRANSPORT", "NETWORK", "PHYSICAL">>

\* name of the layer at index i of the rendered list (indices from 0)
LayerName(mode, i) == Layers(mode)[i + 1]

\* no interval is running
NoInterval ==
  [on |-> FALSE, currentLayer |-> 0, endLayer |-> 0, step |-> 0, due |-> 0]

\* Mutant of ClearInterval: the cleanup leaves the interval running.
ClearIntervalKeeps(iv) == iv

\* return () => clearInterval(interval)
ClearInterval(iv) == NoInterval

\* Mutant of NextLayer: the walk does not advance.
NextLayerStays(cur, step) == cur

\* currentLayer += step
NextLayer(cur, step) == cur + step

\* ------------------------------------------------------------ useWebSocket

\* A setState call: applied while mounted, ignored by React afterwards.
SetState(cur, new) == IF mounted THEN new ELSE cur

\* new WebSocket(url) throws a SyntaxError for a url it cannot use.
ConstructorThrows(u) == u = BAD_URL

Live(sk) == {s \in SockIds : sk[s] \in {"connecting", "open"}}

\* ws.close(): a connecting or open socket starts closing, its close event
\* follows; on a closing or closed socket the call does nothing.
CloseSocket(sk, s) ==
  IF s # NoSocket /\ sk[s] \in {"connecting", "open"}
  THEN [sk EXCEPT ![s] = "closing"]
  ELSE sk

\* connect() of the effect whose closure holds url u; sk is the socket table
\* as left by the statements that ran before it.
Connect(u, sk) ==
  IF ConstructorThrows(u)
  THEN /\ sock' = sk
       /\ UNCHANGED <<sockUrl, nsock, wsRef>>
       /\ connectionError' = SetState(connectionError, "Failed to establish connection")
       /\ isConnected' = SetState(isConnected, FALSE)
  ELSE /\ nsock < MaxSockets
       /\ nsock' = nsock + 1
       /\ sock' = [sk EXCEPT ![nsock + 1] = "connecting"]
       /\ sockUrl' = [sockUrl EXCEPT ![nsock + 1] = u]
       /\ wsRef' = nsock + 1
       /\ UNCHANGED <<connectionError, isConnected>>

\* The effect cleanup: clearTimeout on the recorded timer, close() on the
\* recorded socket. Handlers of the socket stay attached.
CleanupTimers == timers \ {reconnectTimeoutRef}
CleanupSockets == CloseSocket(sock, wsRef)

\* JSON.parse(event.data)
JSONParse(p) == [threw |-> ~p.wellFormed, value |-> p.value]

PayloadClass(p) ==
  IF ~p.wellFormed THEN "malformed"
  ELSE IF p.value = NullMsg THEN "null" ELSE p.value.type

\* Mutant of HandleMessage: a parse error clears lastMessage.
HandleMessageClearsOnError(p, lm) ==
  LET parsed == JSONParse(p) IN
  IF parsed.threw
  THEN [lastMessage |-> NullMsg, changed |-> lm # NullMsg, escaped |-> FALSE]
  ELSE [lastMessage |-> parsed.value,
        changed |-> (parsed.value # NullMsg \/ lm # NullMsg),
        escaped |-> FALSE]

\* Body of ws.onmessage with lastMessage = lm. A parse error is caught; for
\* the JSON text null, setLastMessage(null) runs and the TypeError of
\* data.type is caught. changed: React sees a new state value.
HandleMessage(p, lm) ==
  LET parsed == JSONParse(p) IN
  IF parsed.threw
  THEN [lastMessage |-> lm, changed |-> FALSE, escaped |-> FALSE]
  ELSE [lastMessage |-> parsed.value,
        changed |-> (parsed.value # NullMsg \/ lm # NullMsg),
        escaped |-> FALSE]

\* the event before this one was an unparsable payload on socket s
DroppedOn(s) ==
  /\ ev.kind = "message"
  /\ ev.sock = s
  /\ ev.cls = "malformed" \/ ev.afterDrop

OnOpen(s) ==
  /\ sock[s] = "connecting"
  /\ sock' = [sock EXCEPT ![s] = "open"]
  /\ isConnected' = SetState(isConnected, TRUE)
  /\ connectionError' = SetState(connectionError, NoError)
  /\ ev' = Event("open", s)
  /\ UNCHANGED <<url, mounted, sockUrl, nsock, wsRef, reconnectTimeoutRef,
                 timers, msgVars, storeVars, indexVars, viewVars>>

OnMessage(s, p) ==
  /\ sock[s] = "open"
  /\ LET r == HandleMessage(p, lastMessage) IN
       /\ lastMessage' = SetState(lastMessage, r.lastMessage)
       /\ msgDirty' = (msgDirty \/ (mounted /\ r.changed))
       /\ ev' = [Event("message", s) EXCEPT !.cls = PayloadClass(p),
                                            !.escaped = r.escaped,
                                            !.afterDrop = DroppedOn(s)]
  /\ UNCHANGED <<wsVars, storeVars, indexVars, viewVars>>

\* Mutant of OnError: the handler also closes the socket and marks the
\* connection as down.
OnErrorCloses(s) ==
  /\ sock[s] \in {"connecting", "open", "closing"}
  /\ connectionError' = SetState(connectionError, "Connection error")
  /\ sock' = CloseSocket(sock, s)
  /\ isConnected' = SetState(isConnected, FALSE)
  /\ ev' = Event("error", s)
  /\ UNCHANGED <<url, mounted, sockUrl, nsock, wsRef,
                 reconnectTimeoutRef, timers, msgVars,
                 storeVars, indexVars, viewVars>>

OnError(s) ==
  /\ sock[s] \in {"connecting", "open", "closing"}
  /\ connectionError' = SetState(connectionError, "Connection error")
  /\ ev' = Event("error", s)
  /\ UNCHANGED <<url, mounted, sock, sockUrl, nsock, wsRef,
                 reconnectTimeoutRef, timers, isConnected, msgVars,
                 storeVars, indexVars, viewVars>>

OnClose(s) ==
  /\ sock[s] \in {"connecting", "open", "closing"}
  /\ sock' = [sock EXCEPT ![s] = "closed"]
  /\ isConnected' = SetState(isConnected, FALSE)
  /\ timers' = timers \cup {s}
  /\ reconnectTimeoutRef' = s
  /\ ev' = Event("close", s)
  /\ UNCHANGED <<url, mounted, sockUrl, nsock, wsRef, connectionError,
                 msgVars, storeVars, indexVars, viewVars>>

\* The reconnect timeout scheduled by the close handler of socket t fires.
ReconnectTimer(t) ==
  /\ t \in timers
  /\ timers' = timers \ {t}
  /\ Connect(sockUrl[t], sock)
  /\ ev' = Event("reconnect", t)
  /\ UNCHANGED <<url, mounted, reconnectTimeoutRef, msgVars, storeVars,
                 indexVars, viewVars>>

\* The url argument changes: cleanup of the old effect, then the new effect.
UrlChange(u) ==
  /\ mounted
  /\ u # url
  /\ url' = u
  /\ timers' = CleanupTimers
  /\ Connect(u, CleanupSockets)
  /\ ev' = Event("url", NoSocket)
  /\ UNCHANGED <<mounted, reconnectTimeoutRef, msgVars, storeVars,
                 indexVars, viewVars>>

\* The page unmounts: the effect cleanups run. The cleanup of ProtocolStack
\* clears its interval; the intervals of TrafficFlowMonitor are cleared too
\* (its samplers fire only while mounted).
Teardown ==
  /\ mounted
  /\ mounted' = FALSE
  /\ timers' = CleanupTimers
  /\ sock' = CleanupSockets
  /\ seqInterval' = ClearInterval(seqInterval)
  /\ ev' = Event("teardown", NoSocket)
  /\ UNCHANGED <<url, sockUrl, nsock, wsRef, reconnectTimeoutRef,
                 isConnected, connectionError, msgVars, storeVars,
                 indexVars, globeVars, now, trafficVars, bufferVars,
                 senderVars, stackVars, monitorVars>>

\* ------------------------------------------------------ useOrbitalTracking

\* The effect on [lastMessage]: an orbital_update message replaces the
\* snapshot; every other message (and null) leaves it alone.
\* Mutant of StoreAccepts: every parsed message replaces the snapshot.
StoreAcceptsAnyType(msg) == msg # NullMsg

StoreAccepts(msg) == msg # NullMsg /\ msg.type = "orbital_update"

\* Mutant of StoreMerge: a frame older than the snapshot is rejected.
StoreMergeNewestWins(prev, msg) ==
  IF StoreAccepts(msg) /\ (prev = NullMsg \/ msg.timestamp >= prev.timestamp)
  THEN msg ELSE prev

StoreMerge(prev, msg) == IF StoreAccepts(msg) THEN msg ELSE prev

\* ------------------------------------------------------------------- Index

\* `${Math.floor(m / 60)}:${(m % 60).toString().padStart(2, '0')}` or '--:--'
FormatPass(m) ==
  IF m > 0
  THEN ToString(m \div 60) \o ":" \o
       (IF m % 60 < 10 THEN "0" \o ToString(m % 60) ELSE ToString(m % 60))
  ELSE "--:--"

\* look_angles?.elevation || 0
OrZero(e) == IF e = 0 THEN 0 ELSE e

\* orbitalData.stations.find(s => s.id === id): index of the first match, 0
\* when there is none.
FindStation(list, id) ==
  LET hits == {j \in 1..Len(list) : list[j].id = id} IN
  IF hits = {} THEN 0 ELSE CHOOSE j \in hits : \A k \in hits : j <= k

\* Mutant of StationsMerge: the rows of stations absent from the frame are
\* dropped (filter in place of map).
StationsMergeDropsAbsent(prev, data) ==
  SelectSeq(prev, LAMBDA row : FindStation(data.stations, row.id) # 0)

\* setStations(prev => prev.map(...)) for snapshot data
StationsMerge(prev, data) ==
  [i \in 1..Len(prev) |->
     LET j == FindStation(data.stations, prev[i].id) IN
     IF j # 0
     THEN [prev[i] EXCEPT
             !.isActive = (data.active_station_id = prev[i].id),
             !.elevation = OrZero(data.stations[j].elevation),
             !.nextPassTime = FormatPass(data.stations[j].next_pass_minutes)]
     ELSE prev[i]]

\* orbitalData?.stations is truthy
HasStations(data) == data # NullMsg /\ data.has_stations

\* Mutant of HandoffDetected: every frame that names a station hands off.
HandoffDetectedNoCompare(data, act) == data.active_station_id # NullId

\* Mutant of HandoffDetected: the null check is missing.
HandoffDetectedNoNullGuard(data, act) == data.active_station_id # act

\* orbitalData.active_station_id && orbitalData.active_station_id !== activeStationId
HandoffDetected(data, act) ==
  /\ data.active_station_id # NullId
  /\ data.active_station_id # act

\* The effect on [orbitalData, activeStationId], run with the rendered
\* snapshot data and the rendered active station id act.
IndexEffect(data, act) ==
  IF HasStations(data)
  THEN /\ stations' = StationsMerge(stations, data)
       /\ IF HandoffDetected(data, act)
          THEN /\ handoffCount < MaxHandoffs
               /\ activeStationId' = data.active_station_id
               /\ handoffCount' = handoffCount + 1
               /\ handoffInProgress' = TRUE
               /\ dwellTimers' = dwellTimers + 1
          ELSE UNCHANGED <<activeStationId, handoffCount, handoffInProgress,
                           dwellTimers>>
  ELSE UNCHANGED <<stations, activeStationId, handoffCount,
                   handoffInProgress, dwellTimers>>

\* Reference detector of a frames-only run: a frame counts when it carries a
\* stations list and names a station other than the one in force.
FrameHandsOff(frame, current) ==
  /\ frame.has_stations
  /\ frame.active_station_id # NullId
  /\ frame.active_station_id # current

\* A commit is due when a dependency of an effect changed.
CommitDue == msgDirty \/ dataDirty \/ activeStationId # depActive

\* One React commit: the store effect runs when lastMessage changed, the
\* Index effect when orbitalData or activeStationId changed; both read the
\* state as rendered, so the Index effect sees the snapshot of the previous
\* commit, not the one the store effect sets in this commit.
Commit ==
  /\ mounted
  /\ CommitDue
  /\ LET runStore == msgDirty
         runIndex == dataDirty \/ activeStationId # depActive
         accepted == runStore /\ StoreAccepts(lastMessage)
         counts == /\ ~userSelected
                   /\ dataDirty
                   /\ FrameHandsOff(orbitalData, inForce)
         handoff == runIndex /\ HasStations(orbitalData)
                             /\ HandoffDetected(orbitalData, activeStationId)
     IN
       /\ orbitalData' = IF runStore THEN StoreMerge(orbitalData, lastMessage)
                                     ELSE orbitalData
       /\ dataDirty' = accepted
       /\ msgDirty' = FALSE
       /\ depActive' = activeStationId
       /\ IF runIndex
          THEN IndexEffect(orbitalData, activeStationId)
          ELSE UNCHANGED <<stations, activeStationId, handoffCount,
                           handoffInProgress, dwellTimers>>
       /\ lastUpdate' = IF accepted THEN lastMessage ELSE lastUpdate
       /\ dupPending' = (accepted /\ lastMessage = orbitalData)
       /\ selectedSinceMerge' = (selectedSinceMerge /\ ~dataDirty)
       /\ inForce' = IF counts THEN orbitalData.active_station_id ELSE inForce
       /\ expected' = IF counts THEN expected + 1 ELSE expected
       /\ handoffTarget' = IF handoff THEN orbitalData.active_station_id
                                      ELSE handoffTarget
       /\ ev' = [Event("commit", NoSocket) EXCEPT
                   !.merged = dataDirty,
                   !.dup = (dataDirty /\ dupPending /\ ~selectedSinceMerge),
                   !.stale = (accepted /\ orbitalData # NullMsg
                              /\ lastMessage.timestamp < orbitalData.timestamp),
                   !.handoff = handoff]
  /\ UNCHANGED <<wsVars, lastMessage, userSelected, viewVars>>

\* The timeout of a counted handoff fires: setHandoffInProgress(false).
DwellTimer ==
  /\ dwellTimers > 0
  /\ dwellTimers' = dwellTimers - 1
  /\ handoffInProgress' = SetState(handoffInProgress, FALSE)
  /\ ev' = Event("dwell", NoSocket)
  /\ UNCHANGED <<wsVars, msgVars, storeVars, stations, activeStationId,
                 depActive, handoffCount, userSelected,
                 selectedSinceMerge, inForce, expected, handoffTarget,
                 viewVars>>

\* handleStationSelect(id), from a click on a row of the station list
StationSelect(id) ==
  /\ mounted
  /\ activeStationId' = id
  /\ userSelected' = TRUE
  /\ selectedSinceMerge' = TRUE
  /\ ev' = Event("select", NoSocket)
  /\ UNCHANGED <<wsVars, msgVars, storeVars, stations, depActive,
                 handoffCount, handoffInProgress, dwellTimers, inForce,
                 expected, handoffTarget, viewVars>>

\* --------------------------------------------------------------- GlobeView

\* activeStationId !== prevActiveStation && prevActiveStation
GlobeHandoffDetected(act, prev) == act # prev /\ prev # NullId

\* Mutant of GlobeTimeout: the timeout forgets setPrevActiveStation.
GlobeTimeoutKeepsPrev(captured, prev) ==
  [handoffInProgress |-> FALSE, prevActiveStation |-> prev]

\* Body of the 1500 ms timeout whose closure captured activeStationId.
GlobeTimeout(captured, prev) ==
  [handoffInProgress |-> FALSE, prevActiveStation |-> captured]

GlobeEffectDue ==
  activeStationId # globeDepActive \/ prevActiveStation # globeDepPrev

\* The effect on [activeStationId, prevActiveStation] of GlobeView, run with
\* the rendered prop and state.
GlobeEffect ==
  /\ mounted
  /\ GlobeEffectDue
  /\ globeDepActive' = activeStationId
  /\ globeDepPrev' = prevActiveStation
  /\ IF GlobeHandoffDetected(activeStationId, prevActiveStation)
     THEN /\ globeHandoffInProgress' = TRUE
          /\ globeTimers' = Append(globeTimers, activeStationId)
          /\ UNCHANGED prevActiveStation
     ELSE IF prevActiveStation = NullId
     THEN /\ prevActiveStation' = activeStationId
          /\ UNCHANGED <<globeHandoffInProgress, globeTimers>>
     ELSE UNCHANGED <<globeHandoffInProgress, prevActiveStation, globeTimers>>
  /\ ev' = Event("globe", NoSocket)
  /\ UNCHANGED <<wsVars, msgVars, storeVars, indexVars, panelVars, monitorVars, now, trafficVars,
                 bufferVars>>

\* The oldest pending timeout of GlobeView fires.
GlobeTimer ==
  /\ globeTimers # <<>>
  /\ LET r == GlobeTimeout(Head(globeTimers), prevActiveStation) IN
       /\ globeHandoffInProgress' = SetState(globeHandoffInProgress, r.handoffInProgress)
       /\ prevActiveStation' = SetState(prevActiveStation, r.prevActiveStation)
  /\ globeTimers' = Tail(globeTimers)
  /\ ev' = Event("globetimer", NoSocket)
  /\ UNCHANGED <<wsVars, msgVars, storeVars, indexVars, panelVars, monitorVars, globeDepActive,
                 globeDepPrev, now, trafficVars, bufferVars>>

\* ------------------------------------------------- consumers of dtn_queues

\* dtnQueues={orbitalData?.dtn_queues ?? {}}
DtnQueuesProp(data) == IF data = NullMsg THEN <<>> ELSE data.dtn_queues

\* custodyAcks={orbitalData?.custody_acks ?? []}
CustodyAcksProp(data) == IF data = NullMsg THEN <<>> ELSE data.custody_acks

\* Object.values(queues).flat()
RECURSIVE Flat(_)
Flat(queues) ==
  IF queues = <<>> THEN <<>>
  ELSE Head(queues).bundles \o Flat(Tail(queues))

\* the bundles the consumers render for snapshot data
ExposedBundles(data) ==
  LET all == Flat(DtnQueuesProp(data)) IN {all[i] : i \in 1..Len(all)}

\* Math.floor(bundle.age_seconds) of the bundle rows
AgeShown(b) == b.age_seconds

\* Time passes.
Tick ==
  /\ now < MaxNow
  /\ now' = now + 1
  /\ ev' = Event("tick", NoSocket)
  /\ UNCHANGED <<wsVars, msgVars, storeVars, indexVars, panelVars, monitorVars, globeVars,
                 trafficVars, bufferVars>>

\* ------------------------------------------------------ TrafficFlowMonitor

\* Mutant of JourneyEligible: only delivered bundles have a journey.
JourneyEligibleDeliveredOnly(b) == b.status = "DELIVERED"

\* .filter(b => b.status === "DELIVERED" || b.hops.length > 0)
JourneyEligible(b) == b.status = "DELIVERED" \/ Len(b.hops) > 0

\* One step of the stable sort by created_at, newest first: b goes behind
\* every element that is at least as new.
RECURSIVE InsertByCreated(_, _)
InsertByCreated(b, sorted) ==
  IF sorted = <<>> THEN <<b>>
  ELSE IF Head(sorted).created_at >= b.created_at
       THEN <<Head(sorted)>> \o InsertByCreated(b, Tail(sorted))
       ELSE <<b>> \o sorted

\* .sort((a, b) => new Date(b.created_at).getTime() - new Date(a.created_at).getTime())
RECURSIVE SortByCreated(_)
SortByCreated(list) ==
  IF list = <<>> THEN <<>>
  ELSE InsertByCreated(list[Len(list)],
                       SortByCreated(SubSeq(list, 1, Len(list) - 1)))

\* .map(b => ({...})) of the journey list (payload and priority left out)
Journey(b) ==
  [bundle_id_short |-> b.bundle_id, hops |-> b.hops, status |-> b.status,
   created_at |-> b.created_at, delivered_at |-> b.delivered_at]

\* The journeys computed by the effect on [allQueues].
Journeys(queues) ==
  LET sorted == SortByCreated(SelectSeq(Flat(queues), JourneyEligible))
      n == IF Len(sorted) < JourneyLimit THEN Len(sorted) ELSE JourneyLimit
  IN [k \in 1..n |-> Journey(sorted[k])]

\* TrafficFlowMonitor is rendered with allQueues = q; the effect on
\* [allQueues] of that commit sets the journey list.
TrafficCommit(q) ==
  /\ mounted
  /\ allQueues' = q
  /\ bundleJourneys' = Journeys(q)
  /\ ev' = Event("traffic", NoSocket)
  /\ UNCHANGED <<wsVars, msgVars, storeVars, indexVars, panelVars, monitorVars, globeVars, now,
                 bufferVars>>

\* --------------------------------------------- TrafficFlowMonitor buffers

\* prev.slice(1)
Slice1(prev) == IF prev = <<>> THEN <<>> ELSE Tail(prev)

\* Mutant of BufferPush: the oldest entry is not dropped.
BufferPushNoEvict(prev, sample) == Append(prev, sample)

\* [...prev.slice(1), sample]
BufferPush(prev, sample) == Append(Slice1(prev), sample)

\* Array(1800).fill(false), with the capacity of the model
EmptyHistory == [k \in 1..SignalCapacity |-> FALSE]

\* The bandwidth effect sets the rates it computed from linkStatus; the
\* throughput effect is set up again with them: its cleanup clears the
\* interval and a new one is started.
BandwidthChange(r) ==
  /\ mounted
  /\ inputChanges < MaxInputChanges
  /\ <<uplinkBandwidth, downlinkBandwidth>> # r
  /\ uplinkBandwidth' = r[1]
  /\ downlinkBandwidth' = r[2]
  /\ inputChanges' = inputChanges + 1
  /\ throughputDue' = ThroughputMs
  /\ ev' = Event("bandwidth", NoSocket)
  /\ UNCHANGED <<wsVars, msgVars, storeVars, indexVars, panelVars, monitorVars, globeVars, now,
                 trafficVars, trafficStations, throughputData, signalHistory,
                 throughputPushed, signalPushed, signalDue, throughputAge,
                 signalAge>>

\* The 1500 ms interval of the throughput graph fires.
ThroughputTick ==
  /\ mounted
  /\ throughputDue = 0
  /\ throughputDue' = ThroughputMs
  /\ throughputAge' = 0
  /\ Len(throughputPushed) < Len(InitialThroughput) + MaxExtraPushes
  /\ LET point == ThroughputPoint("0s", uplinkBandwidth, downlinkBandwidth) IN
       /\ throughputData' = BufferPush(throughputData, point)
       /\ throughputPushed' = Append(throughputPushed, point)
  /\ ev' = Event("throughput", NoSocket)
  /\ UNCHANGED <<wsVars, msgVars, storeVars, indexVars, panelVars, monitorVars, globeVars, now,
                 trafficVars, trafficStations, uplinkBandwidth,
                 downlinkBandwidth, signalHistory, inputChanges, signalPushed,
                 signalDue, signalAge>>

\* ids of the stations prop
StationIds(list) == {list[i].id : i \in 1..Len(list)}

\* is_visible of station id in the stations prop
VisibleIn(list, id) ==
  LET i == CHOOSE j \in 1..Len(list) : list[j].id = id IN list[i].is_visible

\* The effect on [stations] that initialises the histories: a station with
\* no entry in the rendered signalHistory gets an all-false history.
InitHistories(history, list) ==
  [id \in DOMAIN history \cup StationIds(list) |->
     IF id \in DOMAIN history THEN history[id] ELSE EmptyHistory]

\* TrafficFlowMonitor is rendered with a new stations prop: the effects on
\* [stations] run, the 1000 ms interval is set up again with the new list.
StationsRender(list) ==
  /\ mounted
  /\ inputChanges < MaxInputChanges
  /\ list # trafficStations
  /\ trafficStations' = list
  /\ signalHistory' = InitHistories(signalHistory, list)
  /\ inputChanges' = inputChanges + 1
  /\ signalDue' = SignalMs
  /\ ev' = Event("stations", NoSocket)
  /\ UNCHANGED <<wsVars, msgVars, storeVars, indexVars, panelVars, monitorVars, globeVars, now,
                 trafficVars, uplinkBandwidth, downlinkBandwidth,
                 throughputData, throughputPushed, signalPushed,
                 throughputDue, throughputAge, signalAge>>

\* The 1000 ms interval of the visibility histories fires.
SignalTick ==
  /\ mounted
  /\ signalDue = 0
  /\ signalDue' = SignalMs
  /\ signalAge' = 0
  /\ \A id \in StationIds(trafficStations) :
       Len(signalPushed[id]) < SignalCapacity + MaxExtraPushes
  /\ signalHistory' =
       [id \in DOMAIN signalHistory \cup StationIds(trafficStations) |->
          IF id \notin StationIds(trafficStations) THEN signalHistory[id]
          ELSE IF id \in DOMAIN signalHistory
               THEN BufferPush(signalHistory[id], VisibleIn(trafficStations, id))
               ELSE EmptyHistory]
  /\ signalPushed' =
       [id \in TrafficIds |->
          IF id \in StationIds(trafficStations) /\ id \in DOMAIN signalHistory
          THEN Append(signalPushed[id], VisibleIn(trafficStations, id))
          ELSE signalPushed[id]]
  /\ ev' = Event("signal", NoSocket)
  /\ UNCHANGED <<wsVars, msgVars, storeVars, indexVars, panelVars, monitorVars, globeVars, now,
                 trafficVars, trafficStations, uplinkBandwidth,
                 downlinkBandwidth, throughputData, inputChanges,
                 throughputPushed, throughputDue, throughputAge>>

\* SamplerStep ms pass while neither sampler is due.
SamplerElapse ==
  /\ mounted
  /\ throughputDue > 0
  /\ signalDue > 0
  /\ throughputDue' = throughputDue - SamplerStep
  /\ signalDue' = signalDue - SamplerStep
  /\ throughputAge' = throughputAge + SamplerStep
  /\ signalAge' = signalAge + SamplerStep
  /\ ev' = Event("elapse", NoSocket)
  /\ UNCHANGED <<wsVars, msgVars, storeVars, indexVars, panelVars, monitorVars,
                 globeVars, now, trafficVars, trafficStations, uplinkBandwidth,
                 downlinkBandwidth, throughputData, signalHistory,
                 inputChanges, throughputPushed, signalPushed>>

\* ----------------------------------------------------------- ProtocolStack

\* The effect on [direction, layers.length], run for direction d and mode m
\* after the cleanup of the previous run, with interval iv and packet
\* position pos as the cleanup found them.
StackEffect(d, m, iv, pos) ==
  IF d # NullDirection
  THEN LET isUplink == d = "uplink"
           startLayer == IF isUplink THEN 0 ELSE Len(Layers(m)) - 1
           endLayer == IF isUplink THEN Len(Layers(m)) - 1 ELSE 0
           step == IF isUplink THEN 1 ELSE 0 - 1
       IN [interval |-> [on |-> TRUE, currentLayer |-> startLayer,
                         endLayer |-> endLayer, step |-> step,
                         due |-> TickMs],
           packetPosition |-> startLayer,
           started |-> TRUE]
  ELSE [interval |-> ClearInterval(iv), packetPosition |-> pos,
        started |-> FALSE]

\* ProtocolStack is rendered with direction d and mode m: the effect runs
\* when direction or layers.length differs from the previous render.
StackRender(d, m) ==
  IF mounted /\ (d # protocolDirection \/ Len(Layers(m)) # Len(Layers(stackMode)))
  THEN LET r == StackEffect(d, m, seqInterval, packetPosition) IN
         /\ seqInterval' = r.interval
         /\ packetPosition' = r.packetPosition
         /\ runId' = IF r.started THEN runId + 1 ELSE runId
         /\ marked' = IF r.started THEN <<>> ELSE marked
         /\ runDirection' = IF r.started THEN d ELSE runDirection
         /\ runMode' = IF r.started THEN m ELSE runMode
  ELSE UNCHANGED <<seqInterval, packetPosition, runId, marked, runDirection,
                   runMode>>

\* The 200 ms interval of the running effect fires.
IntervalTick ==
  /\ seqInterval.on
  /\ seqInterval.due = 0
  /\ activeLayer' = SetState(activeLayer, seqInterval.currentLayer)
  /\ marked' = Append(marked, LayerName(stackMode, seqInterval.currentLayer))
  /\ IF seqInterval.currentLayer = seqInterval.endLayer
     THEN /\ seqInterval' = NoInterval
          /\ holdTimers' = Append(holdTimers, [due |-> HoldMs, run |-> runId])
          /\ UNCHANGED packetPosition
     ELSE LET next == NextLayer(seqInterval.currentLayer, seqInterval.step) IN
            /\ seqInterval' = [seqInterval EXCEPT !.currentLayer = next,
                                                  !.due = TickMs]
            /\ packetPosition' = SetState(packetPosition, next)
            /\ UNCHANGED holdTimers
  /\ lastFired' = [kind |-> "tick", run |-> runId, send |-> 0]
  /\ ev' = Event("stacktick", NoSocket)
  /\ UNCHANGED <<wsVars, msgVars, storeVars, indexVars, globeVars, now,
                 trafficVars, bufferVars, monitorVars, senderVars, stackMode, runId,
                 runDirection, runMode, modeChanges>>

\* The 300 ms timeout of a run that reached its end layer fires.
HoldTimer ==
  /\ holdTimers # <<>>
  /\ Head(holdTimers).due = 0
  /\ activeLayer' = SetState(activeLayer, NullLayer)
  /\ packetPosition' = SetState(packetPosition, NoPacket)
  /\ holdTimers' = Tail(holdTimers)
  /\ lastFired' = [kind |-> "hold", run |-> Head(holdTimers).run, send |-> 0]
  /\ ev' = Event("stackhold", NoSocket)
  /\ UNCHANGED <<wsVars, msgVars, storeVars, indexVars, globeVars, now,
                 trafficVars, bufferVars, monitorVars, senderVars, stackMode, seqInterval,
                 runId, marked, runDirection, runMode, modeChanges>>

\* The mode prop of ProtocolStack changes.
StackModeRender(m) ==
  /\ mounted
  /\ m # stackMode
  /\ modeChanges < MaxModeChanges
  /\ modeChanges' = modeChanges + 1
  /\ stackMode' = m
  /\ StackRender(protocolDirection, m)
  /\ lastFired' = [kind |-> "mode", run |-> runId', send |-> 0]
  /\ ev' = Event("stackmode", NoSocket)
  /\ UNCHANGED <<wsVars, msgVars, storeVars, indexVars, globeVars, now,
                 trafficVars, bufferVars, monitorVars, senderVars, activeLayer, holdTimers>>

\* --------------------------------------------------------- MessageExchange

\* DTNBundle as the message panel reads it: the full id, the short id and
\* the status.
PanelBundle(id, short, status) ==
  [bundle_id |-> id, bundle_id_short |-> short, status |-> status]

\* bundles of the active station's queue: a delivered one whose short id is
\* a prefix of its id, a delivered one whose two ids are the same text, and
\* one that is still queued
PanelBundles ==
  << PanelBundle("7f3a9c2e-51d0", "7f3a9c2e", "DELIVERED"),
     PanelBundle("b2", "b2", "DELIVERED"),
     PanelBundle("c41e77aa-09b3", "c41e77aa", "QUEUED") >>

\* the queues rendered: every selection, in order, of the bundles above
QueueInputs ==
  { SelectSeq(PanelBundles, LAMBDA b : b.bundle_id \in ids) :
      ids \in SUBSET {PanelBundles[i].bundle_id : i \in 1..Len(PanelBundles)} }

\* One entry of the message log.
Message(kind, success, mode) ==
  [kind |-> kind, success |-> success, mode |-> mode]

\* the entries the log starts with
InitialMessages ==
  << Message("seed", TRUE, "TCP"), Message("seed", TRUE, "TCP"),
     Message("seed", TRUE, "TCP") >>

\* message.trim() is not empty
Sendable(text) == text # ""

\* handleSend in TCP mode with the typed text; connected is isConnected, the
\* link state of the rendered linkStatus.
SendTCP(text, connected) ==
  /\ mounted
  /\ messageMode = "TCP"
  /\ sends < MaxSends
  /\ IF ~Sendable(text)
     THEN /\ message' = text
          /\ UNCHANGED <<messages, messageMode, protocolDirection,
                         senderTimers, sends, pendingRequests, requests,
                         stackVars, seqInterval>>
     ELSE IF ~connected
     THEN /\ messages' = Append(messages, Message("gnd", FALSE, "TCP"))
          /\ message' = ""
          /\ sends' = sends + 1
          /\ lastFired' = [kind |-> "refused", run |-> runId, send |-> sends + 1]
          /\ UNCHANGED <<messageMode, protocolDirection, senderTimers,
                         pendingRequests, requests, stackMode, activeLayer,
                         holdTimers, modeChanges, seqInterval, packetPosition,
                         runId, marked, runDirection, runMode>>
     ELSE /\ protocolDirection' = "uplink"
          /\ StackRender("uplink", stackMode)
          /\ messages' = Append(messages, Message("gnd", TRUE, "TCP"))
          /\ message' = ""
          /\ senderTimers' = senderTimers \o
               << [kind |-> "downlink", due |-> DownlinkMs, send |-> sends + 1],
                  [kind |-> "reset", due |-> ResetMs, send |-> sends + 1] >>
          /\ sends' = sends + 1
          /\ lastFired' = [kind |-> "send", run |-> runId', send |-> sends + 1]
          /\ UNCHANGED <<messageMode, pendingRequests, requests, stackMode,
                         activeLayer, holdTimers, modeChanges>>
  /\ ev' = Event("send", NoSocket)
  /\ UNCHANGED effectVars
  /\ UNCHANGED <<wsVars, msgVars, storeVars, indexVars, globeVars, now,
                 trafficVars, bufferVars, monitorVars>>

\* remove the element at index i
RemoveAt(s, i) == SubSeq(s, 1, i - 1) \o SubSeq(s, i + 1, Len(s))

\* A timeout of handleSend fires: after 1200 ms the downlink animation and
\* the ACK entry, after 2500 ms the reset of the animation.
SenderTimer(i) ==
  /\ i \in 1..Len(senderTimers)
  /\ senderTimers[i].due = 0
  /\ senderTimers' = RemoveAt(senderTimers, i)
  /\ IF senderTimers[i].kind = "downlink"
     THEN /\ protocolDirection' = SetState(protocolDirection, "downlink")
          /\ StackRender("downlink", stackMode)
          /\ messages' = SetState(messages, Append(messages, Message("ack", TRUE, "TCP")))
     ELSE /\ protocolDirection' = SetState(protocolDirection, NullDirection)
          /\ StackRender(NullDirection, stackMode)
          /\ UNCHANGED messages
  /\ lastFired' = [kind |-> senderTimers[i].kind, run |-> runId',
                   send |-> senderTimers[i].send]
  /\ ev' = Event("sender", NoSocket)
  /\ UNCHANGED inputVars
  /\ UNCHANGED <<wsVars, msgVars, storeVars, indexVars, globeVars, now,
                 trafficVars, bufferVars, monitorVars, messageMode, sends, pendingRequests,
                 requests, stackMode, activeLayer, holdTimers, modeChanges>>

\* The entry the handoff effect appends for the active station it renders.
HandoffMessage(station) ==
  [kind |-> "handoff", success |-> TRUE, mode |-> "TCP", station |-> station]

\* the dependencies [handoffCount, activeStationId] changed since the effect
\* last ran
HandoffLogDue == logDeps # <<handoffCount, activeStationId>>

\* The log after the handoff effect has run with the rendered handoffCount
\* and activeStationId.
HandoffLogEntries(log, count, station) ==
  IF count > 0 THEN Append(log, HandoffMessage(station)) ELSE log

\* The effect on [handoffCount, activeStationId] of MessageExchange, run
\* with the rendered props.
HandoffLogEffect ==
  /\ mounted
  /\ HandoffLogDue
  /\ Len(messages) < Len(InitialMessages) + MaxLogEntries
  /\ logDeps' = <<handoffCount, activeStationId>>
  /\ messages' = SetState(messages,
       HandoffLogEntries(messages, handoffCount, activeStationId))
  /\ ev' = Event("handofflog", NoSocket)
  /\ UNCHANGED <<wsVars, msgVars, storeVars, indexVars, globeVars, now,
                 trafficVars, bufferVars, monitorVars, messageMode,
                 protocolDirection, senderTimers, sends, pendingRequests,
                 requests, stationQueue, deliveryTicks, message, stackVars,
                 seqInterval>>

\* The entry of a delivered bundle.
DeliveredMessage(bundle) ==
  [kind |-> "delivered", success |-> TRUE, mode |-> "DTN",
   bundleId |-> bundle.bundle_id_short]

\* messages.some(m => m.bundleId === id)
Logged(log, id) ==
  \E i \in 1..Len(log) : "bundleId" \in DOMAIN log[i] /\ log[i].bundleId = id

\* stationQueue.filter(b => b.status === "DELIVERED" && !messages.some(...))
DeliveredBundles(queue, log) ==
  SelectSeq(queue, LAMBDA b : b.status = "DELIVERED" /\ ~Logged(log, b.bundle_id))

\* the log after deliveredBundles.forEach(bundle => setMessages(...))
RECURSIVE AppendDelivered(_, _)
AppendDelivered(log, bundles) ==
  IF bundles = <<>> THEN log
  ELSE AppendDelivered(Append(log, DeliveredMessage(Head(bundles))),
                       Tail(bundles))

\* A frame brings a new queue of the active station: the panel is rendered
\* with it.
QueueRender(queue) ==
  /\ mounted
  /\ queue # stationQueue
  /\ stationQueue' = queue
  /\ ev' = Event("queue", NoSocket)
  /\ UNCHANGED <<wsVars, msgVars, storeVars, indexVars, globeVars, now,
                 trafficVars, bufferVars, monitorVars, messages, messageMode,
                 protocolDirection, senderTimers, sends, pendingRequests,
                 requests, logDeps, deliveryTicks, message, stackVars,
                 seqInterval>>

\* The 2000 ms interval of the delivery check fires; it exists in DTN mode
\* while the queue is not empty.
DeliveryTick ==
  /\ mounted
  /\ messageMode = "DTN"
  /\ stationQueue # <<>>
  /\ deliveryTicks < MaxDeliveryTicks
  /\ deliveryTicks' = deliveryTicks + 1
  /\ messages' = AppendDelivered(messages,
                                 DeliveredBundles(stationQueue, messages))
  /\ ev' = Event("delivery", NoSocket)
  /\ UNCHANGED <<wsVars, msgVars, storeVars, indexVars, globeVars, now,
                 trafficVars, bufferVars, monitorVars, messageMode,
                 protocolDirection, senderTimers, sends, pendingRequests,
                 requests, logDeps, stationQueue, message, stackVars,
                 seqInterval>>

\* A click on TCP MODE or DTN MODE.
SetMode(m) ==
  /\ mounted
  /\ m # messageMode
  /\ messageMode' = m
  /\ ev' = Event("mode", NoSocket)
  /\ UNCHANGED inputVars
  /\ UNCHANGED <<wsVars, msgVars, storeVars, indexVars, globeVars, now,
                 trafficVars, bufferVars, monitorVars, messages, protocolDirection,
                 senderTimers, sends, pendingRequests, requests, stackVars,
                 seqInterval>>

\* handleSend in DTN mode up to its await: the request is on its way.
SendDTN(text) ==
  /\ mounted
  /\ messageMode = "DTN"
  /\ requests < MaxRequests
  /\ IF Sendable(text)
     THEN /\ requests' = requests + 1
          /\ pendingRequests' = pendingRequests \cup {requests + 1}
     ELSE UNCHANGED <<requests, pendingRequests>>
  /\ message' = text
  /\ ev' = Event("request", NoSocket)
  /\ UNCHANGED effectVars
  /\ UNCHANGED <<wsVars, msgVars, storeVars, indexVars, globeVars, now,
                 trafficVars, bufferVars, monitorVars, messages, messageMode,
                 protocolDirection, senderTimers, sends, stackVars,
                 seqInterval>>

\* Mutant of ResponseEntry: every outcome is logged as a created bundle.
ResponseEntryOptimistic(outcome) == Message("created", TRUE, "DTN")

\* The entry handleSend appends after the await: result.success, the else
\* branch, or the catch branch (fetch or response.json() threw).
ResponseEntry(outcome) ==
  IF outcome = "created" THEN Message("created", TRUE, "DTN")
  ELSE IF outcome = "rejected" THEN Message("failed", FALSE, "DTN")
  ELSE Message("error", FALSE, "DTN")

\* The request id ends with the given outcome: handleSend resumes.
Response(id, outcome) ==
  /\ id \in pendingRequests
  /\ pendingRequests' = pendingRequests \ {id}
  /\ messages' = SetState(messages, Append(messages, ResponseEntry(outcome)))
  /\ lastFired' = [kind |-> outcome, run |-> runId, send |-> id]
  /\ message' = SetState(message, "")
  /\ ev' = Event("response", NoSocket)
  /\ UNCHANGED effectVars
  /\ UNCHANGED <<wsVars, msgVars, storeVars, indexVars, globeVars, now,
                 trafficVars, bufferVars, monitorVars, messageMode, protocolDirection,
                 senderTimers, sends, requests, stackMode, activeLayer,
                 packetPosition, holdTimers, modeChanges, runId, marked,
                 runDirection, runMode, seqInterval>>

\* a timer of the panel is pending
TimerPending ==
  seqInterval.on \/ holdTimers # <<>> \/ senderTimers # <<>>

\* no pending timer is due
NothingDue ==
  /\ seqInterval.on => seqInterval.due > 0
  /\ \A i \in 1..Len(holdTimers) : holdTimers[i].due > 0
  /\ \A i \in 1..Len(senderTimers) : senderTimers[i].due > 0

\* TimeStep ms pass while a timer is pending and none is due.
Elapse ==
  /\ TimerPending
  /\ NothingDue
  /\ seqInterval' = IF seqInterval.on
                    THEN [seqInterval EXCEPT !.due = @ - TimeStep] ELSE seqInterval
  /\ holdTimers' = [i \in 1..Len(holdTimers) |->
                      [holdTimers[i] EXCEPT !.due = @ - TimeStep]]
  /\ senderTimers' = [i \in 1..Len(senderTimers) |->
                        [senderTimers[i] EXCEPT !.due = @ - TimeStep]]
  /\ ev' = Event("elapse", NoSocket)
  /\ UNCHANGED inputVars
  /\ UNCHANGED <<wsVars, msgVars, storeVars, indexVars, globeVars, now,
                 trafficVars, bufferVars, monitorVars, messages, messageMode,
                 protocolDirection, sends, pendingRequests, requests,
                 stackMode, activeLayer, packetPosition, runId, marked,
                 runDirection, runMode, modeChanges, lastFired>>

\* ---------------------------------- TrafficFlowMonitor: estimator, uptime

\* TrafficFlowMonitor is rendered with a new linkStatus: the bandwidth effect
\* runs, Math.random() returning r1 and r2.
LinkStatusRender(ls, r1, r2) ==
  /\ mounted
  /\ linkStatus' = ls
  /\ jitterDraws' = <<r1, r2>>
  /\ uplinkBandwidth' = Bandwidth(ls, r1, r2).uplink
  /\ downlinkBandwidth' = Bandwidth(ls, r1, r2).downlink
  /\ ev' = Event("link", NoSocket)
  /\ UNCHANGED <<wsVars, msgVars, storeVars, indexVars, globeVars, now,
                 trafficVars, trafficStations, throughputData, signalHistory,
                 inputChanges, throughputPushed, signalPushed, samplerClock,
                 panelVars,
                 uptimeShown, uptimeOf>>

\* Math.round of the quotient a / b (b > 0): halves go up
Round(a, b) == (2 * a + b) \div (2 * b)

\* Mutant of CalculateUptime: the percentage is cut, not rounded.
CalculateUptimeFloor(history) ==
  (Cardinality({i \in 1..Len(history) : history[i]}) * 100) \div Len(history)

\* calculateUptime(history)
CalculateUptime(history) ==
  LET activeCount == Cardinality({i \in 1..Len(history) : history[i]})
  IN Round(activeCount * 100, Len(history))

\* A station row is rendered with a history of n samples, k of them true.
\* The function keeps no state: one render is followed.
UptimeRender(n, k) ==
  /\ mounted
  /\ uptimeOf = NoHistory
  /\ k <= n
  /\ uptimeOf' = [length |-> n, trues |-> k]
  /\ uptimeShown' = CalculateUptime(History(n, k))
  /\ ev' = Event("uptime", NoSocket)
  /\ UNCHANGED <<wsVars, msgVars, storeVars, indexVars, globeVars, now,
                 trafficVars, bufferVars, panelVars, linkStatus, jitterDraws>>

\* --------------------------------------------------------- specifications

\* The state after the first commit: the hooks hold their initial values and
\* the mount effect has called connect() for WS_URL.
Init ==
  /\ url = WS_URL
  /\ mounted = TRUE
  /\ sock = [s \in SockIds |-> IF s = 1 THEN "connecting" ELSE "none"]
  /\ sockUrl = [s \in SockIds |-> IF s = 1 THEN WS_URL ELSE ""]
  /\ nsock = 1
  /\ wsRef = 1
  /\ reconnectTimeoutRef = 0
  /\ timers = {}
  /\ isConnected = FALSE
  /\ connectionError = NoError
  /\ lastMessage = NullMsg
  /\ msgDirty = FALSE
  /\ orbitalData = NullMsg
  /\ dataDirty = FALSE
  /\ stations = DEFAULT_STATIONS
  /\ activeStationId = DefaultActive
  /\ depActive = DefaultActive
  /\ handoffCount = 0
  /\ handoffInProgress = FALSE
  /\ dwellTimers = 0
  /\ ev = Event("mount", 1)
  /\ lastUpdate = NullMsg
  /\ dupPending = FALSE
  /\ userSelected = FALSE
  /\ selectedSinceMerge = FALSE
  /\ inForce = DefaultActive
  /\ expected = 0
  /\ handoffTarget = DefaultActive
  /\ globeHandoffInProgress = FALSE
  /\ prevActiveStation = DefaultActive
  /\ globeTimers = <<>>
  /\ globeDepActive = DefaultActive
  /\ globeDepPrev = DefaultActive
  /\ now = FirstNow
  /\ allQueues = <<>>
  /\ bundleJourneys = <<>>
  /\ trafficStations = <<>>
  /\ uplinkBandwidth = 0
  /\ downlinkBandwidth = 0
  /\ throughputData = InitialThroughput
  /\ signalHistory = [id \in {} |-> <<>>]
  /\ inputChanges = 0
  /\ throughputPushed = <<>>
  /\ signalPushed = [id \in TrafficIds |-> <<>>]
  /\ throughputDue = ThroughputMs
  /\ signalDue = SignalMs
  /\ throughputAge = 0
  /\ signalAge = 0
  /\ message = ""
  /\ messages = InitialMessages
  /\ logDeps = <<0, DefaultActive>>
  /\ stationQueue = <<>>
  /\ deliveryTicks = 0
  /\ messageMode = "TCP"
  /\ protocolDirection = NullDirection
  /\ senderTimers = <<>>
  /\ sends = 0
  /\ pendingRequests = {}
  /\ requests = 0
  /\ stackMode = "TCP"
  /\ activeLayer = NullLayer
  /\ packetPosition = NoPacket
  /\ seqInterval = NoInterval
  /\ holdTimers = <<>>
  /\ modeChanges = 0
  /\ runId = 0
  /\ marked = <<>>
  /\ runDirection = NullDirection
  /\ runMode = "TCP"
  /\ lastFired = [kind |-> "mount", run |-> 0, send |-> 0]
  /\ linkStatus = NoLink
  /\ uptimeShown = 0
  /\ jitterDraws = <<0, 0>>
  /\ uptimeOf = NoHistory

\* The connection manager under every transport and lifecycle event.
NextWS ==
  \/ \E s \in SockIds : OnOpen(s)
  \/ \E s \in SockIds, p \in WSPayloads : OnMessage(s, p)
  \/ \E s \in SockIds : OnError(s)
  \/ \E s \in SockIds : OnClose(s)
  \/ \E t \in SockIds : ReconnectTimer(t)
  \/ \E u \in Urls : UrlChange(u)
  \/ Teardown
  \/ Commit

SpecWS == Init /\ [][NextWS]_vars

\* The store and the handoff detector fed by one connection.
Next ==
  \/ \E s \in SockIds : OnOpen(s)
  \/ \E s \in SockIds, p \in StorePayloads : OnMessage(s, p)
  \/ Commit
  \/ DwellTimer
  \/ \E id \in SelectIds : StationSelect(id)

Spec == Init /\ [][Next]_vars

\* frames that move the active station back and forth
DwellPayloads ==
  { Json(Frame("orbital_update", 1, "toronto", TRUE, StationsFull)),
    Json(Frame("orbital_update", 2, "london", TRUE, StationsFull)) }

\* The store fed with frames that carry dtn_queues and custody_acks, and the
\* wall clock.
NextDTN ==
  \/ \E s \in SockIds : OnOpen(s)
  \/ \E s \in SockIds, p \in DtnPayloads : OnMessage(s, p)
  \/ Commit
  \/ Tick

SpecDTN == Init /\ [][NextDTN]_vars

\* TrafficFlowMonitor rendered with any of the queues.
NextJourney == \E q \in JourneyInputs : TrafficCommit(q)

SpecJourney == Init /\ [][NextJourney]_vars

\* The samplers of TrafficFlowMonitor and the inputs they sample.
NextBuffers ==
  \/ \E r \in RateInputs : BandwidthChange(r)
  \/ ThroughputTick
  \/ \E list \in StationInputs : StationsRender(list)
  \/ SignalTick
  \/ SamplerElapse

SpecBuffers == Init /\ [][NextBuffers]_vars

\* The handoff detector of Index and the one of GlobeView, fed by frames,
\* with their dwell timers.
NextDwell ==
  \/ \E s \in SockIds : OnOpen(s)
  \/ \E s \in SockIds, p \in DwellPayloads : OnMessage(s, p)
  \/ Commit
  \/ DwellTimer
  \/ GlobeEffect
  \/ GlobeTimer

\* React runs a due commit and a due effect, and a started timeout fires.
SpecDwell ==
  /\ Init /\ [][NextDwell]_vars
  /\ WF_vars(Commit) /\ WF_vars(DwellTimer)
  /\ WF_vars(GlobeEffect) /\ WF_vars(GlobeTimer)

\* a parsed frame of a type the store does not know, carrying the members of
\* an update: a stations list and an active station
UnknownFrame == Frame("telemetry", 3, "london", TRUE, StationsPartial)

\* the connection frame, the frame of unknown type, the text "null" and
\* updates that move the active station
FramePayloads ==
  {Json(ConnectionFrame), Json(UnknownFrame), Json(NullMsg)} \cup DwellPayloads

\* The store and the handoff detector fed by frames of every type.
NextFrames ==
  \/ \E s \in SockIds : OnOpen(s)
  \/ \E s \in SockIds, p \in FramePayloads : OnMessage(s, p)
  \/ Commit
  \/ DwellTimer

SpecFrames == Init /\ [][NextFrames]_vars

\* The handoff detector of Index and the handoff entries of the message
\* log, fed by frames and by clicks on station rows. React renders after
\* every state update of an effect and of a click, so the handoff effect of
\* the log runs before the next commit and the next click.
NextLog ==
  \/ \E s \in SockIds : OnOpen(s)
  \/ \E s \in SockIds, p \in DwellPayloads : OnMessage(s, p)
  \/ ~HandoffLogDue /\ Commit
  \/ DwellTimer
  \/ \E id \in SelectIds : ~HandoffLogDue /\ StationSelect(id)
  \/ HandoffLogEffect

SpecLog == Init /\ [][NextLog]_vars

\* The delivery check of the message panel, with the queues of the frames
\* and the mode buttons.
NextDelivery ==
  \/ \E m \in StackModes : SetMode(m)
  \/ \E q \in QueueInputs : QueueRender(q)
  \/ DeliveryTick

SpecDelivery == Init /\ [][NextDelivery]_vars

\* The message panel in TCP mode and its protocol stack, with their timers.
NextPanel ==
  \/ \E text \in Texts, connected \in BOOLEAN : SendTCP(text, connected)
  \/ \E i \in 1..Len(senderTimers) : SenderTimer(i)
  \/ IntervalTick
  \/ HoldTimer
  \/ \E m \in StackModes : StackModeRender(m)
  \/ Elapse

SpecPanel == Init /\ [][NextPanel]_vars

\* The message panel in DTN mode, beside the events of the connection.
NextCommand ==
  \/ \E m \in StackModes : SetMode(m)
  \/ \E text \in Texts : SendDTN(text)
  \/ \E id \in 1..MaxRequests, outcome \in Outcomes : Response(id, outcome)
  \/ \E s \in SockIds : OnOpen(s)
  \/ \E s \in SockIds : OnError(s)

SpecCommand == Init /\ [][NextCommand]_vars

\* TrafficFlowMonitor rendered with any link status.
NextEstimator ==
  \E ls \in LinkInputs, r1 \in RandomDraws, r2 \in RandomDraws :
    LinkStatusRender(ls, r1, r2)

SpecEstimator == Init /\ [][NextEstimator]_vars

\* A station row rendered with any history.
NextUptime == \E in \in UptimeInputs : UptimeRender(in[1], in[2])

SpecUptime == Init /\ [][NextUptime]_vars

\* a frame that hands the pass to london
HandoffPayload == Json(Frame("orbital_update", 2, "london", TRUE, StationsFull))

\* the stations prop while london is not in view
OneStation == <<TrafficStation("toronto", TRUE)>>

\* The page with its timers running (handoff dwell, protocol stack, message
\* sender, samplers) and its unmount. One message is sent; the frames and
\* the samplers come before it, the timers and the unmount in any order.
NextUnmount ==
  \/ \E s \in SockIds : sends = 0 /\ OnOpen(s)
  \/ \E s \in SockIds : sends = 0 /\ OnMessage(s, HandoffPayload)
  \/ sends = 0 /\ Commit
  \/ DwellTimer
  \/ sends = 0 /\ SendTCP("ping", TRUE)
  \/ \E i \in 1..Len(senderTimers) : SenderTimer(i)
  \/ IntervalTick
  \/ HoldTimer
  \/ Elapse
  \/ sends = 0 /\ throughputPushed = <<>> /\ ThroughputTick
  \/ sends = 0 /\ StationsRender(OneStation)
  \/ sends = 0 /\ signalPushed["toronto"] = <<>> /\ SignalTick
  \/ sends = 0 /\ SamplerElapse
  \/ Teardown

SpecUnmount == Init /\ [][NextUnmount]_vars

\* ------------------------------------------------------------------ claims

\* C1: after teardown the pending reconnect timer is cancelled and the socket
\* closed, and from then on no reconnect timer is scheduled and no socket is
\* created; the close event of the teardown's own close() starts no reconnect.
C1_TeardownIsFinal ==
  [][ /\ (ev'.kind = "teardown" =>
            /\ reconnectTimeoutRef \notin timers'
            /\ wsRef \notin Live(sock'))
      /\ (~mounted => (nsock' = nsock /\ timers' \subseteq timers)) ]_vars

\* C2: in every reachable state at most one socket created by the connection
\* manager is connecting or open.
C2_OneLiveSocket == Cardinality(Live(sock)) <= 1

\* C3: every close event sets isConnected to false and schedules exactly one
\* reconnect timer, a timer that fires makes exactly one connection attempt,
\* and at most one reconnect timer is pending at any time.
C3_OneReconnectTimer ==
  [][ /\ (ev'.kind = "close" =>
            /\ (mounted => ~isConnected')
            /\ Cardinality(timers' \ timers) = 1)
      /\ (ev'.kind = "reconnect" => nsock' <= nsock + 1)
      /\ Cardinality(timers') <= 1 ]_vars

\* C4: while the manager is mounted and no socket is connecting or open, a
\* connection attempt is on its way: a reconnect timer is pending or a close
\* event that will schedule one is still to come.
C4_ReconnectNeverStops ==
  (mounted /\ Live(sock) = {}) =>
    (timers # {} \/ \E s \in SockIds : sock[s] = "closing")

\* C5: an unparsable payload changes neither lastMessage, the snapshot,
\* isConnected, connectionError nor any socket, no exception leaves the
\* handler, and a well-formed frame that follows on the same socket is
\* delivered to lastMessage.
C5_MalformedFrameDropped ==
  [][ /\ (ev'.kind = "message" /\ ev'.cls = "malformed" =>
            /\ UNCHANGED <<lastMessage, msgDirty, orbitalData, dataDirty,
                           isConnected, connectionError, sock, wsRef, timers>>
            /\ sock'[ev'.sock] = "open")
      /\ (ev'.kind = "message" => ~ev'.escaped)
      /\ (ev'.kind = "message" /\ ev'.afterDrop /\ mounted
            /\ ev'.cls \notin {"malformed", "null"} =>
            /\ lastMessage'.type = ev'.cls
            /\ msgDirty') ]_vars

\* a frame was delivered right after an unparsable payload was dropped, with
\* a snapshot in the store
C5_Witness ==
  /\ ev.kind = "message" /\ ev.afterDrop /\ ev.cls = "orbital_update"
  /\ mounted
  /\ lastMessage.type = "orbital_update"
  /\ orbitalData # NullMsg

C7_DuplicateMergeIdempotent ==
  [][ /\ (ev'.kind = "commit" /\ dupPending' => orbitalData' = orbitalData)
      /\ (ev'.kind = "commit" /\ ev'.dup =>
            UNCHANGED <<stations, activeStationId, handoffCount,
                        handoffInProgress, dwellTimers>>) ]_vars

\* the frame that caused a handoff was merged a second time
C7_Witness ==
  /\ ev.kind = "commit" /\ ev.dup
  /\ ~userSelected
  /\ handoffCount = 1 /\ activeStationId = "london"
  /\ handoffInProgress /\ dwellTimers = 1

C9_OnlyFramesProduceHandoffs ==
  [][ (handoffCount' # handoffCount \/ (~handoffInProgress /\ handoffInProgress'))
        => (ev'.kind = "commit" /\ ev'.merged) ]_vars

\* C10: the counter never decreases, rises by exactly one together with the
\* flag, and a frame that reports the target of the handoff in progress
\* leaves it unchanged.
C10_CounterMonotoneNoDoubleCount ==
  [][ /\ handoffCount' >= handoffCount
      /\ (handoffCount' # handoffCount =>
            handoffCount' = handoffCount + 1 /\ handoffInProgress')
      /\ (ev'.kind = "commit" /\ ev'.merged /\ handoffInProgress
            /\ orbitalData.active_station_id = handoffTarget =>
            handoffCount' = handoffCount) ]_vars

\* C11: in a run without user selection the in-progress flag is true exactly
\* while the dwell timer of the latest handoff is pending (timers of equal
\* delay fire in the order they were started, so the latest is pending while
\* any is).
C11_FlagCoversDwellWindow ==
  ~userSelected => (handoffInProgress <=> dwellTimers > 0)

\* both detectors are steady on the target of the last handoff
C12_Steady ==
  /\ ~handoffInProgress /\ dwellTimers = 0
  /\ activeStationId = handoffTarget
  /\ ~globeHandoffInProgress /\ globeTimers = <<>>
  /\ prevActiveStation = activeStationId

\* C12: whatever handoffs have occurred, the detectors reach again the steady
\* state on the target of the last handoff (so after every handoff they reach
\* it unless a further handoff occurs first), and the steady state lasts until
\* the next handoff: the flags stay false and the recorded stations stay the
\* target.
C12_ReturnsToSteady ==
  /\ []<>C12_Steady
  /\ [][ C12_Steady /\ handoffCount' = handoffCount => C12_Steady' ]_vars

\* steady again after a handoff to london that both detectors saw
C12_Witness ==
  /\ handoffCount = 1 /\ C12_Steady
  /\ activeStationId = "london" /\ prevActiveStation = "london"
  /\ ev.kind = "globetimer"

\* C13: in every reachable state of the station list at most one station
\* has isActive = TRUE.
C13_AtMostOneActive ==
  Cardinality({i \in 1..Len(stations) : stations[i].isActive}) <= 1

\* the transition table of the bundle state machine
StatusEdges ==
  { <<"QUEUED", "TRANSMITTING">>, <<"QUEUED", "EXPIRED">>,
    <<"TRANSMITTING", "DELIVERED">>, <<"TRANSMITTING", "FORWARDED">>,
    <<"TRANSMITTING", "EXPIRED">>,
    <<"FORWARDED", "TRANSMITTING">>, <<"FORWARDED", "EXPIRED">> }

TerminalStatus == {"DELIVERED", "EXPIRED"}

\* C14: the exposed status of a bundle changes only along an edge of the
\* transition table.
C14_OnlyTableEdges ==
  [][ \A x \in ExposedBundles(orbitalData), y \in ExposedBundles(orbitalData') :
        x.bundle_id = y.bundle_id =>
          (y.status = x.status \/ <<x.status, y.status>> \in StatusEdges) ]_vars

\* C15: a bundle exposed with a terminal status is still exposed after every
\* later merge.
C15_TerminalBundleKept ==
  [][ \A x \in ExposedBundles(orbitalData) :
        x.status \in TerminalStatus =>
          \E y \in ExposedBundles(orbitalData') : y.bundle_id = x.bundle_id ]_vars

IsPrefix(s, r) == Len(s) <= Len(r) /\ SubSeq(r, 1, Len(s)) = s
NoRepeat(s) == \A i, j \in 1..Len(s) : s[i] = s[j] => i = j

\* C16: over every merge the hops of a bundle keep the hops before the merge
\* as a prefix and hold no station twice.
C16_HopsAppendOnly ==
  [][ \A x \in ExposedBundles(orbitalData), y \in ExposedBundles(orbitalData') :
        x.bundle_id = y.bundle_id =>
          (IsPrefix(x.hops, y.hops) /\ NoRepeat(y.hops)) ]_vars

\* C17: the custody acks of the snapshot are applied to the bundles they
\* name: after a custody_accepted ack the bundle is not left FORWARDED at the
\* old custodian, after a delivered ack it is DELIVERED with delivered_at set,
\* and a DELIVERED bundle changes no more.
C17_AckApplied ==
  [][ /\ \A i \in 1..Len(CustodyAcksProp(orbitalData')) :
           LET a == CustodyAcksProp(orbitalData')[i] IN
           \A y \in ExposedBundles(orbitalData') :
             y.bundle_id = a.bundle_id =>
               /\ (a.ack_type = "custody_accepted" /\ y.status # "DELIVERED" =>
                     y.status = "TRANSMITTING" /\ y.current_custodian = a.to_station)
               /\ (a.ack_type = "delivered" =>
                     y.status = "DELIVERED" /\ y.delivered_at # NoTime)
      /\ \A x \in ExposedBundles(orbitalData), y \in ExposedBundles(orbitalData') :
           (x.bundle_id = y.bundle_id /\ x.status = "DELIVERED") => y = x ]_vars

\* C18: the age shown for every exposed bundle is at least 0 and equals the
\* current time minus created_at.
C18_AgeRecomputed ==
  \A x \in ExposedBundles(orbitalData) :
    AgeShown(x) >= 0 /\ AgeShown(x) = now - x.created_at

\* list is the journey list of the bundles all when the eligible bundles are
\* those at the indices elig: it holds the JourneyLimit newest eligible
\* bundles (all of them when there are fewer), each once, newest first, with
\* their fields.
IsJourneyList(list, all, elig) ==
  /\ Len(list) = (IF Cardinality(elig) < JourneyLimit
                  THEN Cardinality(elig) ELSE JourneyLimit)
  /\ \A k \in 1..Len(list) : \E i \in elig : list[k] = Journey(all[i])
  /\ \A k, l \in 1..Len(list) :
       /\ (k < l => list[k].created_at >= list[l].created_at)
       /\ (list[k].bundle_id_short = list[l].bundle_id_short => k = l)
  /\ \A i \in elig :
       (\A k \in 1..Len(list) : list[k].bundle_id_short # all[i].bundle_id) =>
         \A k \in 1..Len(list) : list[k].created_at >= all[i].created_at

\* C19 as claimed: the journey list is the list of the newest bundles that
\* are terminal (DELIVERED or EXPIRED) or have at least one hop.
C19_TerminalOrHopsEligible ==
  LET all == Flat(allQueues) IN
  IsJourneyList(bundleJourneys, all,
                {i \in 1..Len(all) :
                   all[i].status \in TerminalStatus \/ Len(all[i].hops) > 0})

\* C19 amended: the journey list is the list of the newest bundles that are
\* DELIVERED or have at least one hop, and rendering again with the same
\* queues leaves it unchanged.
C19_JourneysProjection ==
  /\ [](LET all == Flat(allQueues) IN
        IsJourneyList(bundleJourneys, all,
                      {i \in 1..Len(all) :
                         all[i].status = "DELIVERED" \/ Len(all[i].hops) > 0}))
  /\ [][allQueues' = allQueues => bundleJourneys' = bundleJourneys]_vars

\* more bundles with a journey than the list holds, among them two of the
\* same created_at, beside an EXPIRED bundle with no hops
C19_Witness ==
  /\ ev.kind = "traffic"
  /\ Len(Flat(allQueues)) = Len(TorontoBundles) + Len(LondonBundles)
  /\ Len(bundleJourneys) = JourneyLimit
  /\ bundleJourneys[1].bundle_id_short = "j8"
  /\ \A k \in 1..JourneyLimit : bundleJourneys[k].bundle_id_short # "j3"

\* the last n entries of s, oldest first
LastN(s, n) == SubSeq(s, Len(s) - n + 1, Len(s))

\* C20: the throughput history and every station's visibility history hold
\* at most their capacity, and once the sampler has pushed at least that many
\* samples the contents are the last capacity-many pushed samples, oldest
\* first.
C20_BuffersHoldLastN ==
  /\ Len(throughputData) <= Len(InitialThroughput)
  /\ Len(throughputPushed) >= Len(InitialThroughput) =>
       throughputData = LastN(throughputPushed, Len(InitialThroughput))
  /\ \A id \in DOMAIN signalHistory :
       /\ Len(signalHistory[id]) <= SignalCapacity
       /\ Len(signalPushed[id]) >= SignalCapacity =>
            signalHistory[id] = LastN(signalPushed[id], SignalCapacity)

\* both buffers were pushed beyond their capacity: the throughput history
\* with points that differ, the visibility history until no initial entry is
\* left
C20_Witness ==
  /\ Len(throughputPushed) > Len(InitialThroughput)
  /\ throughputData[1].uplink # throughputData[Len(throughputData)].uplink
  /\ "toronto" \in DOMAIN signalHistory
  /\ Len(signalPushed["toronto"]) > SignalCapacity
  /\ \A k \in 1..SignalCapacity : signalHistory["toronto"][k]

\* s in reverse order
Reverse(s) == [k \in 1..Len(s) |-> s[Len(s) + 1 - k]]

\* the order in which a run of direction d in mode m has to mark the layers
C21_Walk(d, m) ==
  LET list == IF m = "DTN"
              THEN <<"APPLICATION", "BUNDLE", "TRANSPORT", "NETWORK", "PHYSICAL">>
              ELSE <<"APPLICATION", "TRANSPORT", "NETWORK", "PHYSICAL">>
  IN IF d = "uplink" THEN list ELSE Reverse(list)

\* C21: the layers a run has marked active so far are the first layers of
\* the walk of its direction (uplink: the list from first to last, downlink:
\* from last to first), none skipped and none repeated, where the list is
\* APPLICATION, TRANSPORT, NETWORK, PHYSICAL with BUNDLE after APPLICATION in
\* DTN mode only; after a tick the active layer is the one the walk names
\* for that tick.
C21_LayersInOrder ==
  /\ runId > 0 =>
       /\ IsPrefix(marked, C21_Walk(runDirection, runMode))
       /\ NoRepeat(marked)
  /\ ev.kind = "stacktick" =>
       /\ activeLayer # NullLayer
       /\ LayerName(stackMode, activeLayer) =
            C21_Walk(runDirection, runMode)[Len(marked)]

\* a downlink run in DTN mode has marked all five layers, after the uplink
\* run before it
C21_Witness ==
  /\ ev.kind = "stacktick"
  /\ runId = 2
  /\ runDirection = "downlink"
  /\ runMode = "DTN"
  /\ marked = <<"PHYSICAL", "NETWORK", "TRANSPORT", "BUNDLE", "APPLICATION">>
  /\ activeLayer = 0

\* the sequencer shows nothing: no active layer, no packet
Idle == activeLayer = NullLayer /\ packetPosition = NoPacket

\* C22: when every timer of the panel has fired (no trigger is outstanding
\* and none can follow without a new send) the sequencer is idle, and the
\* hold timeout of a run that reached its terminal layer leaves it idle.
C22_IdleAtRest ==
  /\ ~TimerPending => Idle
  /\ ev.kind = "stackhold" => Idle

\* a run is in progress: its interval is ticking or its terminal hold pending
RunInProgress == seqInterval.on \/ holdTimers # <<>>

\* the sequencer stands at the start of a fresh run of direction d
AtStartOf(d) ==
  LET start == IF d = "uplink" THEN 0 ELSE Len(Layers(stackMode)) - 1 IN
  /\ seqInterval.on
  /\ seqInterval.currentLayer = start
  /\ seqInterval.due = TickMs
  /\ packetPosition = start
  /\ marked = <<>>

\* C23: a trigger that arrives while a run is in progress (a send, or the
\* delayed downlink of the latest send) restarts the sequencer at the start
\* layer of its direction, and a timer of an earlier run (its hold timeout)
\* or of an earlier send (its delayed downlink or reset) changes nothing of
\* the sequencer.
C23_LastTriggerWins ==
  [][ /\ (sends' = sends + 1 /\ lastFired'.kind = "send" /\ RunInProgress =>
            AtStartOf("uplink")')
      /\ (ev'.kind = "sender" /\ lastFired'.kind = "downlink"
            /\ lastFired'.send = sends /\ RunInProgress =>
            AtStartOf("downlink")')
      /\ (ev'.kind = "stackhold" /\ lastFired'.run # runId =>
            UNCHANGED <<activeLayer, packetPosition>>)
      /\ (ev'.kind = "sender" /\ lastFired'.send < sends =>
            UNCHANGED <<protocolDirection, seqInterval, activeLayer,
                        packetPosition>>) ]_vars

\* C24: after the unmount no timer changes the state of a component (the
\* handoff flag of the dwell timer, the layer and packet of the sequencer,
\* the direction and the log of the message sender, the sampled histories),
\* no interval goes on walking and no timer schedules another one.
C24_TimersDeadAfterTeardown ==
  [][ ~mounted =>
        /\ UNCHANGED <<handoffInProgress, activeLayer, packetPosition,
                       protocolDirection, messages, throughputData,
                       signalHistory>>
        /\ seqInterval'.currentLayer = seqInterval.currentLayer
        /\ Len(holdTimers') <= Len(holdTimers)
        /\ Len(senderTimers') <= Len(senderTimers)
        /\ dwellTimers' <= dwellTimers ]_vars

\* the page was unmounted with a dwell timeout, a hold timeout and the reset
\* of a send pending and the samplers running; all three have fired since
\* and the flag, the layer and the direction are as the unmount left them
C24_Witness ==
  /\ ~mounted
  /\ handoffCount > 0 /\ dwellTimers = 0 /\ handoffInProgress
  /\ sends = 1 /\ senderTimers = <<>> /\ protocolDirection = "uplink"
  /\ holdTimers = <<>> /\ ~seqInterval.on
  /\ activeLayer = Len(Layers(stackMode)) - 1
  /\ Len(throughputPushed) > 0
  /\ Len(signalPushed["toronto"]) > 0

\* C25: the end of a bundle-creation request appends exactly one entry to
\* the log, a success entry when the response reports success and a failed
\* entry when it reports success = false or the request itself failed; it
\* leaves isConnected and connectionError alone; nothing else appends to the
\* log in DTN mode; and whatever the earlier requests came to, the next
\* request can be sent.
C25_OneEntryPerRequest ==
  /\ [][ IF ev'.kind = "response"
         THEN /\ Len(messages') = Len(messages) + 1
              /\ SubSeq(messages', 1, Len(messages)) = messages
              /\ messages'[Len(messages')].success = (lastFired'.kind = "created")
              /\ messages'[Len(messages')].mode = "DTN"
              /\ UNCHANGED <<isConnected, connectionError>>
         ELSE messages' = messages ]_vars
  /\ [](Len(messages) = Len(InitialMessages) + requests - Cardinality(pendingRequests))
  /\ [](mounted /\ messageMode = "DTN" /\ requests < MaxRequests =>
          ENABLED SendDTN("ping"))

\* a rejected request and a request lost to a network error are logged as
\* failures, the connection is up, and a third request has been sent since
C25_Witness ==
  /\ isConnected
  /\ requests = 3
  /\ pendingRequests = {3}
  /\ Len(messages) = Len(InitialMessages) + 2
  /\ messages[Len(messages) - 1].kind = "failed"
  /\ ~messages[Len(messages) - 1].success
  /\ messages[Len(messages)].kind = "error"
  /\ ~messages[Len(messages)].success

\* C26: for an IDLE link, and when there is no link status, the estimate is
\* uplink 0 and downlink 0, whatever snr_db and the random draws are.
C26_IdleIsZero ==
  (linkStatus = NoLink \/ linkStatus.connection_state = "IDLE") =>
    uplinkBandwidth = 0 /\ downlinkBandwidth = 0

\* an IDLE link with the highest snr_db, estimated with the extreme draws
C26_Witness ==
  /\ ev.kind = "link"
  /\ linkStatus = Link("IDLE", 60)
  /\ jitterDraws = <<Scale - 10, 0>>
  /\ uplinkBandwidth = 0

\* rate x lies between lo and hi hundredths of a Mbit/s
Within(x, lo, hi) == lo * Scale <= 100 * x /\ 100 * x <= hi * Scale

\* C27: the link-quality factor lies in [0, 1] for every snr_db, and so the
\* ACQUIRED rates lie in [0.95, 10.25] and [2.25, 25.75] and the DEGRADED
\* rates in [0.15, 1.35] and [0.4, 3.4].
C27_FactorClamped ==
  /\ linkStatus.connection_state \in {"ACQUIRED", "DEGRADED"} =>
       SnrFactor(linkStatus) >= 0 /\ SnrFactor(linkStatus) <= Scale
  /\ linkStatus.connection_state = "ACQUIRED" =>
       Within(uplinkBandwidth, 95, 1025) /\ Within(downlinkBandwidth, 225, 2575)
  /\ linkStatus.connection_state = "DEGRADED" =>
       Within(uplinkBandwidth, 15, 135) /\ Within(downlinkBandwidth, 40, 340)

\* clamp(x, 0, 1) in units of 1/Scale
Clamp01(x) == IF x < 0 THEN 0 ELSE IF x > Scale THEN Scale ELSE x

\* the formula value of a rate, in hundredths of 1/Scale Mbit/s: base and
\* slope in hundredths, the factor clamped to [0, 1]
FormulaValue(base, slope, snr, low, span) ==
  base * Scale + slope * Clamp01(((snr - low) * Scale) \div span)

\* rate x is the formula value v (in hundredths) plus a jitter of at most
\* bound hundredths
NearFormula(x, v, bound) ==
  100 * x - v <= bound * Scale /\ v - 100 * x <= bound * Scale

\* C28: an ACQUIRED link of snr_db 25 gives an uplink in [5.35, 5.85] and a
\* downlink in [13.25, 14.75], and every output is its formula value plus a
\* jitter of at most 0.25 / 0.75 (ACQUIRED) or 0.15 / 0.4 (DEGRADED).
C28_JitterBounded ==
  /\ linkStatus = Link("ACQUIRED", 25) =>
       Within(uplinkBandwidth, 535, 585) /\ Within(downlinkBandwidth, 1325, 1475)
  /\ linkStatus.connection_state = "ACQUIRED" =>
       /\ NearFormula(uplinkBandwidth,
                      FormulaValue(120, 880, linkStatus.snr_db, 10, 30), 25)
       /\ NearFormula(downlinkBandwidth,
                      FormulaValue(300, 2200, linkStatus.snr_db, 10, 30), 75)
  /\ linkStatus.connection_state = "DEGRADED" =>
       /\ NearFormula(uplinkBandwidth,
                      FormulaValue(30, 90, linkStatus.snr_db, 3, 7), 15)
       /\ NearFormula(downlinkBandwidth,
                      FormulaValue(80, 220, linkStatus.snr_db, 3, 7), 40)

C30_Five ==
  <<orbitalData, stations, activeStationId, handoffCount, handoffInProgress>>

\* C30: a frame whose type is not orbital_update (the connection frame
\* included) changes none of the snapshot, the station list, the active
\* station id, the handoff count and the in-progress flag: neither its
\* receipt nor the commit that processes it does, and no commit replaces the
\* snapshot by such a frame.
C30_OtherFramesIgnored ==
  [][ /\ (ev'.kind = "message" => C30_Five' = C30_Five)
      /\ (ev'.kind = "commit" /\ lastMessage.type # "orbital_update"
            => orbitalData' = orbitalData)
      /\ (ev'.kind = "commit" /\ msgDirty /\ lastMessage.type # "orbital_update"
          /\ ~dataDirty /\ activeStationId = depActive
            => C30_Five' = C30_Five) ]_vars

\* a frame of unknown type naming london has been processed while the
\* snapshot and the page still name toronto
C30_Witness ==
  /\ ev.kind = "commit"
  /\ ~ev.merged
  /\ ~msgDirty
  /\ lastMessage = UnknownFrame
  /\ orbitalData = Frame("orbital_update", 1, "toronto", TRUE, StationsFull)
  /\ activeStationId = "toronto"

\* the configured members of a row: id, name, location, lat, lon, color
C31_Fixed(row) ==
  <<row.id, row.name, row.location, row.lat, row.lon, row.color>>

\* C31: the station list always has the rows of the configured defaults, in
\* the same order and with id, name, location, lat, lon and color unchanged:
\* a merge changes only isActive, elevation and nextPassTime, adds no row
\* for a station that only a frame reports and removes no row of a station
\* that a frame omits.
C31_StationSetFixed ==
  /\ Len(stations) = Len(DEFAULT_STATIONS)
  /\ \A i \in 1..Len(DEFAULT_STATIONS) :
       C31_Fixed(stations[i]) = C31_Fixed(DEFAULT_STATIONS[i])

\* a frame that omits configured stations and reports an unconfigured one
\* has been merged into the list
C31_Witness ==
  /\ ev.kind = "commit"
  /\ ev.merged
  /\ orbitalData.stations = StationsPartial
  /\ stations # DEFAULT_STATIONS
  /\ stations[2].elevation = 63

\* C32: every parsed orbital_update frame is merged exactly once, in order of
\* receipt; in particular a frame that the store has not processed yet is
\* still there for it when the next frame is received, so the receipt of a
\* frame never replaces a pending orbital_update frame.
C32_NoPendingFrameLost ==
  [][ (ev'.kind = "message" /\ msgDirty /\ StoreAccepts(lastMessage))
        => lastMessage' = lastMessage ]_vars

\* C33: an error event of a socket sets the error string shown to the user
\* (while the component is mounted) and nothing else: isConnected,
\* lastMessage and every socket stay as they are, the handler closes no
\* socket, creates none and schedules no reconnect timer.
C33_ErrorOnlySetsString ==
  [][ ev'.kind = "error" =>
        /\ (mounted => connectionError' = "Connection error")
        /\ UNCHANGED <<isConnected, lastMessage, sock, nsock, wsRef, timers,
                       reconnectTimeoutRef>> ]_vars

\* an open socket has reported an error and is still open and connected
C33_Witness ==
  /\ ev.kind = "error"
  /\ sock[ev.sock] = "open"
  /\ isConnected
  /\ connectionError = "Connection error"
  /\ timers = {}

\* the socket created last
C34_Newest == nsock

\* C34: while the component is mounted, isConnected is true exactly when the
\* socket created last has opened and has not closed yet, and an open or
\* close event of an earlier socket does not change isConnected.
C34_ConnectedIffNewestOpen ==
  [][ /\ (mounted' =>
            (isConnected' <=>
               (C34_Newest' # NoSocket /\ sock'[C34_Newest'] = "open")))
      /\ ((ev'.kind \in {"open", "close"} /\ ev'.sock # C34_Newest)
            => isConnected' = isConnected) ]_vars

\* C35: whatever the connection state, the snr_db and the jitter draws, the
\* estimated uplink and downlink rates are never negative.
C35_RatesNeverNegative ==
  uplinkBandwidth >= 0 /\ downlinkBandwidth >= 0

\* the estimator has run for an ACQUIRED link far below the threshold with
\* the lowest jitter, where the formula gives negative rates
C35_Witness ==
  /\ ev.kind = "link"
  /\ linkStatus = Link("ACQUIRED", 0 - 20)
  /\ jitterDraws = <<0, 0>>
  /\ (12 * Scale) \div 10 + (SnrFactor(linkStatus) * 88) \div 10
       + Jitter(jitterDraws[1], 5) < 0
  /\ uplinkBandwidth = 0
  /\ downlinkBandwidth = 0

\* C36: the samplers keep their cadence whatever the timing of the frames: no
\* change of the rates or of the stations prop postpones a tick, so the
\* throughput sampler never goes longer than 1.5 s and the visibility
\* sampler never longer than 1 s without pushing.
C36_SamplersKeepCadence ==
  /\ throughputAge <= ThroughputMs
  /\ signalAge <= SignalMs

\* C37: activeStationId always names a configured station, and every
\* station whose isActive is true is the station that activeStationId names.
C37_ActiveRepresentationsAgree ==
  /\ activeStationId \in ConfiguredIds
  /\ \A i \in 1..Len(stations) :
       stations[i].isActive => stations[i].id = activeStationId

\* the handoff entries of the message log, in order
C38_HandoffEntries == SelectSeq(messages, LAMBDA m : m.kind = "handoff")

\* C38: once the handoff effect has run, the log holds one handoff entry per
\* counted handoff, and the last of them names the target station of the
\* last handoff.
C38_OneEntryPerHandoff ==
  ~HandoffLogDue =>
    /\ Len(C38_HandoffEntries) = handoffCount
    /\ handoffCount > 0 =>
         C38_HandoffEntries[Len(C38_HandoffEntries)].station = handoffTarget

\* the entries of the log that report the delivery of the bundle with short
\* id short
C39_DeliveredEntries(short) ==
  SelectSeq(messages, LAMBDA m : m.kind = "delivered" /\ m.bundleId = short)

\* C39: the log holds at most one 'Bundle delivered' entry for every bundle,
\* however many ticks of the delivery check and frames there have been.
C39_DeliveredLoggedOnce ==
  \A i \in 1..Len(PanelBundles) :
    Len(C39_DeliveredEntries(PanelBundles[i].bundle_id_short)) <= 1

\* the timers of kind k that send n has pending
C40_TimersOf(pending, k, n) ==
  {i \in 1..Len(pending) : pending[i].kind = k /\ pending[i].send = n}

\* C40: in TCP mode a send that is refused (link not up) appends one failed
\* entry, clears the input, starts no run of the protocol stack and
\* schedules no timer; a send while the link is up appends one success
\* entry, clears the input, starts an uplink run and schedules one delayed
\* downlink, which appends one ACK entry and starts one downlink run.
C40_SendOutcomes ==
  [][ /\ (sends' = sends + 1 /\ lastFired'.kind = "refused" =>
            /\ messages' = Append(messages, Message("gnd", FALSE, "TCP"))
            /\ message' = ""
            /\ UNCHANGED <<protocolDirection, seqInterval, packetPosition,
                           activeLayer, runId, senderTimers, holdTimers>>)
      /\ (sends' = sends + 1 /\ lastFired'.kind = "send" =>
            /\ messages' = Append(messages, Message("gnd", TRUE, "TCP"))
            /\ message' = ""
            /\ Cardinality(C40_TimersOf(senderTimers', "downlink", sends')) = 1
            /\ runId' = runId + 1
            /\ AtStartOf("uplink")')
      /\ (ev'.kind = "sender" /\ lastFired'.kind = "downlink" /\ mounted =>
            /\ messages' = Append(messages, Message("ack", TRUE, "TCP"))
            /\ C40_TimersOf(senderTimers', "downlink", lastFired'.send) = {}
            /\ runId' = runId + 1
            /\ AtStartOf("downlink")') ]_vars

====
